---- MODULE Spec2Model ----
(***************************************************************************)
(* Browser session lifecycle manager of BrowserShield                      *)
(* (services/BrowserService.js).  One BrowserService instance runs on the  *)
(* Node.js event loop: every action below is one synchronous run of a      *)
(* handler, from a call or the resumption of an await up to the next await *)
(* or the exit of the async function.  The profile store and the           *)
(* automation engine (puppeteer) are the environment: their answers are    *)
(* chosen nondeterministically.                                            *)
(***************************************************************************)
EXTENDS Integers, Sequences, FiniteSets, Bags, TLC

\* ---------------------------------------------------------------- bounds
MaxCalls == 3        \* startBrowser/stopBrowser calls in flight at once
MaxBrowsers == 2     \* browsers launched over one run
MaxPageCalls == 1    \* navigateToUrl/executeScript calls in flight at once
MaxTicks == 3        \* the clock advances this many times
MaxProxyArgs == 2    \* --proxy-server arguments pushed over one run

Profiles == {"p1", "p2"}
\* a stored profile with a proxy, next to the plain ones
ProxiedProfiles == {"q1"}
AllProfiles == Profiles \cup ProxiedProfiles
NoBrowser == 0
Undefined == "undefined"
\* the options.headless values the callers pass
HeadlessOptions == {Undefined}

VARIABLES
    activeSessions,     \* Map profileId -> session, in insertion order
    startingProfiles,   \* Set of profile ids being started
    stoppingProfiles,   \* Set of profile ids being stopped
    calls,              \* bag of the async calls in flight, with their position
    browsers,           \* the browsers the engine launched so far
    stopAll,            \* position of the stopAllBrowsers call, if any
    last,               \* the call the last step settled and its result, if any
    history,            \* per profile, what happened since its session was stored:
                        \* "launched" (stored, start still in flight), "started"
                        \* (that start succeeded), "lost"/"disconnected" (the same
                        \* after a disconnected event), "none" (no session stored
                        \* yet, or stopBrowser called since, or the start failed)
    puppeteerArgs,      \* the --proxy-server arguments pushed onto the args
                        \* array of PUPPETEER_CONFIG, in order
    clock,              \* Date.now(), in milliseconds
    shutdown,           \* position of the SIGINT handler of the server
    req,                \* the HTTP request being served and what the service
                        \* does with it
    res                 \* the HTTP response sent for req, if any

\* the variables of the process around the service
envVars == <<puppeteerArgs, clock, shutdown>>
\* the variables of the HTTP layer
apiVars == <<req, res>>

vars == <<activeSessions, startingProfiles, stoppingProfiles, calls,
          browsers, stopAll, last, history, puppeteerArgs, clock, shutdown,
          req, res>>

\* ------------------------------------------------------- the profile store
\* a nullable value: Null, or Some(x)
Null == << >>
Some(x) == <<x>>

\* a proxy configuration as a profile stores it
Proxy(h, u, pw) ==
    [host |-> h, port |-> "8080", type |-> "http", username |-> u,
     password |-> pw]

\* ProfileService.getProfile(profileId): the stored profile
Profile(p) ==
    [id |-> p,
     name |-> IF p = "p1" THEN "n1" ELSE IF p = "p2" THEN "n2" ELSE "n3",
     defaultHeadless |-> IF p = "p1" THEN Undefined ELSE "true",
     userAgent |-> "ua",
     viewport |-> Undefined,
     timezone |-> "UTC",
     proxy |-> IF p \in ProxiedProfiles
               THEN Some(Proxy("h1", "u1", "s1")) ELSE Null]

\* --------------------------------------------------------------- JS Map
\* a has that never finds the key (a lookup under a differently typed key)
MapHasKeyMismatch(m, k) == FALSE

\* Map.prototype.has, as used on activeSessions
MapHas(m, k) == \E i \in 1..Len(m) : m[i].key = k

\* Map.prototype.get; NoSession stands for undefined
NoSession == [browser |-> NoBrowser, profile |-> Undefined,
              startTime |-> Undefined, status |-> Undefined,
              headless |-> Undefined]

MapGet(m, k) ==
    IF \E i \in 1..Len(m) : m[i].key = k
    THEN m[CHOOSE i \in 1..Len(m) :
               m[i].key = k /\ \A j \in 1..(i - 1) : m[j].key # k].value
    ELSE NoSession

\* Map.prototype.set: replaces the value of a present key, appends otherwise
MapSet(m, k, v) ==
    IF MapHas(m, k)
    THEN [i \in 1..Len(m) |->
             IF m[i].key = k THEN [key |-> k, value |-> v] ELSE m[i]]
    ELSE Append(m, [key |-> k, value |-> v])

\* Map.prototype.clear in the place of delete
MapDeleteAll(m, k) == << >>

\* Map.prototype.delete
MapDelete(m, k) == SelectSeq(m, LAMBDA e : e.key # k)

\* Map.prototype.keys, as a set, and Map.prototype.size
MapKeys(m) == {m[i].key : i \in 1..Len(m)}
MapSize(m) == Len(m)

\* number of entries stored under key k
EntriesFor(m, k) == Cardinality({i \in 1..Len(m) : m[i].key = k})

\* ------------------------------------------------------- calls in flight
\* a suspended async call: its function, its arguments and locals, the await
\* it waits at, whether stopAllBrowsers made it, and for a start that waits
\* for its launch the proxy server of the arguments the launch was given
Call(o, p, at, b, err, hl, by) ==
    [op |-> o, profileId |-> p, pc |-> at, browser |-> b, error |-> err,
     headless |-> hl, caller |-> by, launchProxy |-> << >>,
     autoNavigateUrl |-> Undefined]

InFlight == BagToSet(calls)
Suspend(cs, c) == cs (+) SetToBag({c})
Settle(cs, c) == cs (-) SetToBag({c})
CanSuspend(cs) == BagCardinality(cs) < MaxCalls

\* the number of o(p) calls that are suspended at an await
CallsInFlight(o, p) ==
    LET cs == {c \in InFlight : c.op = o /\ c.profileId = p}
    IN  BagCardinality([c \in cs |-> calls[c]])

NoEvent == [op |-> "none", profileId |-> Undefined, result |-> Undefined,
            browser |-> NoBrowser]

\* the step settled the promise of a suspended o(p) with result r (a value
\* or an error code); b is the browser of the session the call dealt with
Returned(o, p, r, b) ==
    [op |-> o, profileId |-> p, result |-> r, browser |-> b]

\* --------------------------------------------------------------- engine
\* browser.close() is invoked on browser b (the call itself is synchronous,
\* its promise settles later)
InvokeClose(bs, b) == [bs EXCEPT ![b].closeCalls = @ + 1]

\* the page of a new browser shows about:blank
BlankUrl == "about:blank"
\* line 102: the page startBrowser opens when it is given no URL
DefaultUrl == "https://httpbin.org/headers"

\* puppeteer.launch: the next browser, with the listener startBrowser
\* registers on it for profile p (the listener deletes the key profileId),
\* and its page: the URL the page shows, the argument of the last page.goto,
\* the proxy server and the headless mode the browser was launched with, and
\* the number of page.goto calls startBrowser made on the page (line 103)
NewBrowser(p) ==
    [profileId |-> p, closeCalls |-> 0, disconnected |-> FALSE,
     url |-> BlankUrl, gotoUrl |-> Undefined, proxyServer |-> Null,
     headless |-> Undefined, startGotoCalls |-> 0]

\* line 102 with the default URL whatever the caller asked for
TargetUrlAlwaysDefault(autoNavigateUrl) == DefaultUrl

\* line 102: autoNavigateUrl || 'https://httpbin.org/headers'; an absent
\* argument and the empty string are falsy
TargetUrl(autoNavigateUrl) ==
    IF autoNavigateUrl \in {Undefined, ""} THEN DefaultUrl
    ELSE autoNavigateUrl

\* ---------------------------------------------------- config/puppeteer.js
\* lines 105-107: the argument createBrowserWithProfile pushes for a proxy,
\* `--proxy-server=${type || 'http'}://${host}:${port}`, as its parts
ProxyServerArg(proxy) ==
    <<"--proxy-server=",
      IF proxy.type = Undefined THEN "http" ELSE proxy.type,
      "://", proxy.host, ":", proxy.port>>

\* line 105: profile.proxy && profile.proxy.host && profile.proxy.port
HasProxyServer(profile) ==
    /\ profile.proxy # Null
    /\ profile.proxy[1].host # Undefined
    /\ profile.proxy[1].port # Undefined

\* lines 94-107: the args array after createBrowserWithProfile prepared the
\* launch of profile; config is a shallow copy, so config.args is the array
\* of PUPPETEER_CONFIG itself
PushProxyArg(args, profile) ==
    IF HasProxyServer(profile)
    THEN Append(args, ProxyServerArg(profile.proxy[1]))
    ELSE args

\* line 111: the proxy a browser launched with args goes through (puppeteer
\* copies the arguments when launch is called, and Chromium keeps the last
\* --proxy-server switch of its command line)
EffectiveProxy(args) ==
    IF args = << >> THEN Null ELSE Some(args[Len(args)])

\* proxy servers that do not answer
UnreachableProxies == {ProxyServerArg(Proxy("h1", "u1", "s1"))}

\* a navigation of browser b cannot succeed: its proxy does not answer
NavigationDoomed(bs, b) ==
    /\ bs[b].proxyServer # Null
    /\ bs[b].proxyServer[1] \in UnreachableProxies

\* ------------------------------------------------------------------ Date
\* Date.prototype.toISOString: the instant as text, seconds and milliseconds
\* apart ("1970-01-01T00:00:02.500Z")
ToISOString(t) == [seconds |-> t \div 1000, millis |-> t % 1000]

\* new Date(text).getTime()
GetTime(iso) == iso.seconds * 1000 + iso.millis

\* ---------------------------------------------------------- startBrowser
\* startBrowser without the check of startingProfiles
IsStartingNever(p) == FALSE

\* line 22: this.startingProfiles.has(profileId)
IsStarting(p) == p \in startingProfiles

\* line 48 with the operands of the first ?? exchanged
ResolveHeadlessProfileFirst(optHeadless, defaultHeadless) ==
    IF defaultHeadless # Undefined THEN defaultHeadless
    ELSE IF optHeadless # Undefined THEN optHeadless
    ELSE "false"

\* line 48, and config/puppeteer.js line 97:
\* options.headless ?? profile.defaultHeadless ?? false
ResolveHeadless(optHeadless, defaultHeadless) ==
    IF optHeadless # Undefined THEN optHeadless
    ELSE IF defaultHeadless # Undefined THEN defaultHeadless
    ELSE "false"

\* the exit of startBrowser without the finally block
StartExitKeepsGuard(c, result, b) ==
    /\ startingProfiles' = startingProfiles
    /\ calls' = Settle(calls, c)
    /\ last' = Returned("startBrowser", c.profileId, result, b)
    /\ history' = [history EXCEPT ![c.profileId] =
                      IF result = "running"
                      THEN (IF @ = "launched" THEN "started"
                            ELSE IF @ = "lost" THEN "disconnected" ELSE @)
                      ELSE (IF @ \in {"launched", "lost"} THEN "none" ELSE @)]

\* lines 145-148 and the exit of startBrowser: finally releases the guard
StartExit(c, result, b) ==
    /\ startingProfiles' = startingProfiles \ {c.profileId}
    /\ calls' = Settle(calls, c)
    /\ last' = Returned("startBrowser", c.profileId, result, b)
    /\ history' = [history EXCEPT ![c.profileId] =
                      IF result = "running"
                      THEN (IF @ = "launched" THEN "started"
                            ELSE IF @ = "lost" THEN "disconnected" ELSE @)
                      ELSE (IF @ \in {"launched", "lost"} THEN "none" ELSE @)]

\* lines 128-144: the catch block, up to its await or the rethrow
StartCatch(c, err) ==
    LET p == c.profileId
        session == MapGet(activeSessions, p)
    IN  IF MapHas(activeSessions, p)
        THEN /\ browsers' = InvokeClose(browsers, session.browser)
             /\ calls' = Suspend(Settle(calls, c),
                           [c EXCEPT !.pc = "cleanupClose", !.error = err,
                                     !.browser = session.browser])
             /\ last' = NoEvent
             /\ UNCHANGED <<activeSessions, startingProfiles, history>>
        ELSE /\ StartExit(c, err, c.browser)
             /\ UNCHANGED <<activeSessions, browsers>>

\* lines 22-32: the error startBrowser(p) throws before it touches anything,
\* as [code, profileId]; NoError when both checks pass.  The error of line 23
\* has a message only: "ALREADY_STARTING" names it here
NoError == [code |-> "none", profileId |-> Undefined]

StartBrowserThrows(p) ==
    IF IsStarting(p)
    THEN [code |-> "ALREADY_STARTING", profileId |-> Undefined]
    ELSE IF MapHas(activeSessions, p)
    THEN [code |-> "SESSION_ACTIVE", profileId |-> p]
    ELSE NoError

\* lines 20-39: the guards, the guard acquisition and the profile lookup; a
\* call that throws at a guard changes nothing
StartBrowserWithUrl(p, autoNavigateUrl, optHeadless) ==
    IF StartBrowserThrows(p) # NoError
    THEN UNCHANGED vars
    ELSE /\ CanSuspend(calls)
         /\ startingProfiles' = startingProfiles \cup {p}
         /\ calls' = Suspend(calls,
                       [Call("startBrowser", p, "getProfile", NoBrowser,
                             Undefined, optHeadless, "api")
                          EXCEPT !.autoNavigateUrl = autoNavigateUrl])
         /\ last' = NoEvent
         /\ UNCHANGED <<activeSessions, stoppingProfiles, browsers, stopAll,
                        history, envVars, apiVars>>

\* startBrowser(profileId, undefined, options): the start without a URL
StartBrowser(p, optHeadless) == StartBrowserWithUrl(p, Undefined, optHeadless)

\* lines 39-56: getProfile settles; headless is resolved and
\* createBrowserWithProfile called, which runs up to its await of the launch
GetProfileReturns(c, found) ==
    /\ c.op = "startBrowser" /\ c.pc = "getProfile"
    /\ IF found
       THEN /\ Len(PushProxyArg(puppeteerArgs, Profile(c.profileId)))
                  <= MaxProxyArgs
            /\ puppeteerArgs' = PushProxyArg(puppeteerArgs,
                                             Profile(c.profileId))
            /\ calls' = Suspend(Settle(calls, c),
                  [c EXCEPT !.pc = "launch",
                            !.headless = ResolveHeadless(c.headless,
                                     Profile(c.profileId).defaultHeadless),
                            !.launchProxy = EffectiveProxy(puppeteerArgs')])
            /\ last' = NoEvent
            /\ UNCHANGED <<activeSessions, startingProfiles, browsers, history>>
       ELSE /\ StartCatch(c, "PROFILE_NOT_FOUND")
            /\ UNCHANGED puppeteerArgs
    /\ UNCHANGED <<stoppingProfiles, stopAll, clock, shutdown, apiVars>>

\* lines 56-106: createBrowserWithProfile settles; on success the session is
\* stored, the disconnected listener registered and page.goto requested
LaunchReturns(c, outcome) ==
    /\ c.op = "startBrowser" /\ c.pc = "launch"
    /\ IF outcome = "launched"
       THEN LET p == c.profileId
                b == Len(browsers) + 1
            IN  /\ Len(browsers) < MaxBrowsers
                /\ browsers' = Append(browsers,
                       [NewBrowser(p) EXCEPT
                           !.proxyServer = c.launchProxy,
                           !.headless = ResolveHeadless(c.headless,
                                           Profile(p).defaultHeadless),
                           !.gotoUrl = TargetUrl(c.autoNavigateUrl),
                           !.startGotoCalls = 1])
                /\ activeSessions' = MapSet(activeSessions, p,
                       [browser |-> b, profile |-> Profile(p),
                        startTime |-> ToISOString(clock),
                        status |-> "running", headless |-> c.headless])
                /\ calls' = Suspend(Settle(calls, c),
                              [c EXCEPT !.pc = "goto", !.browser = b])
                /\ last' = NoEvent
                /\ history' = [history EXCEPT ![p] =
                                  IF CallsInFlight("stopBrowser", p) = 0
                                  THEN "launched" ELSE "none"]
                /\ UNCHANGED startingProfiles
       ELSE StartCatch(c, outcome)
    /\ UNCHANGED <<stoppingProfiles, stopAll, envVars, apiVars>>

\* config/puppeteer.js lines 111-115 and lines 58-77, 128-148 of the
\* service: puppeteer.launch resolved, and browser.newPage or a step of
\* applyProfileSettings rejects.  createBrowserWithProfile rejects without
\* closing the browser, whose handle only its local held; startBrowser
\* wraps the error, finds no session to clean up and rethrows.  The browser
\* has no disconnected listener and was asked for no navigation
SetupFails(c) ==
    /\ c.op = "startBrowser" /\ c.pc = "launch"
    /\ Len(browsers) < MaxBrowsers
    /\ ~MapHas(activeSessions, c.profileId)
    /\ browsers' = Append(browsers,
           [NewBrowser(c.profileId) EXCEPT
               !.proxyServer = c.launchProxy,
               !.headless = ResolveHeadless(c.headless,
                               Profile(c.profileId).defaultHeadless)])
    /\ StartExit(c, "LAUNCH_FAILED", NoBrowser)
    /\ UNCHANGED <<activeSessions, stoppingProfiles, stopAll, envVars,
                   apiVars>>

\* lines 103-126: page.goto settles; success returns the summary
GotoReturns(c, ok) ==
    /\ c.op = "startBrowser" /\ c.pc = "goto"
    /\ IF ok
       THEN /\ ~NavigationDoomed(browsers, c.browser)
            /\ StartExit(c, "running", c.browser)
            /\ UNCHANGED <<activeSessions, browsers>>
       ELSE StartCatch(c, "NAVIGATION_FAILED")
    /\ UNCHANGED <<stoppingProfiles, stopAll, envVars, apiVars>>

\* lines 120-124 with the credentials of the proxy copied as well
ProxyBlockWithCredentials(proxy) ==
    IF proxy = Null THEN Null
    ELSE Some([host |-> proxy[1].host, port |-> proxy[1].port,
               type |-> proxy[1].type, username |-> proxy[1].username,
               password |-> proxy[1].password])

\* lines 120-124: profile.proxy ? { host, port, type } : null
ProxyBlock(proxy) ==
    IF proxy = Null THEN Null
    ELSE Some([host |-> proxy[1].host, port |-> proxy[1].port,
               type |-> proxy[1].type])

\* lines 110-126: the summary a successful startBrowser returns, from its
\* locals profileId, profile, session.startTime and headless
StartSummary(profileId, profile, startTime, headless) ==
    [profileId |-> profileId,
     profileName |-> profile.name,
     status |-> "running",
     startTime |-> startTime,
     headless |-> headless,
     browserInfo |-> [userAgent |-> profile.userAgent,
                      viewport |-> profile.viewport,
                      timezone |-> profile.timezone,
                      proxy |-> ProxyBlock(profile.proxy)]]

\* the catch block rethrowing the error of a failed close
RethrownFromClose(c, closeOk) ==
    IF closeOk THEN c.error ELSE "CLOSE_FAILED"

\* lines 135-144: the error the catch block rethrows after its cleanup; a
\* rejection of close is caught and logged at lines 137-139
Rethrown(c, closeOk) == c.error

\* lines 136-148: the cleanup close settles, resolved or rejected; the entry
\* is deleted and the original error rethrown
CleanupCloseReturns(c, closeOk) ==
    /\ c.op = "startBrowser" /\ c.pc = "cleanupClose"
    /\ activeSessions' = MapDelete(activeSessions, c.profileId)
    /\ StartExit(c, Rethrown(c, closeOk), c.browser)
    /\ UNCHANGED <<stoppingProfiles, browsers, stopAll, envVars, apiVars>>

\* ----------------------------------------------------------- stopBrowser
\* stopBrowser without the check of stoppingProfiles
IsStoppingNever(p) == FALSE

\* line 158: this.stoppingProfiles.has(profileId)
IsStopping(p) == p \in stoppingProfiles

\* lines 169-175 for a call that passed both checks: the guard is taken,
\* close requested on the session's browser, and the call waits for it
StopAcquire(p, by, st) ==
    [stopping |-> st.stopping \cup {p},
     browsers |-> InvokeClose(st.browsers, MapGet(activeSessions, p).browser),
     calls |-> Suspend(st.calls,
                  Call("stopBrowser", p, "close",
                       MapGet(activeSessions, p).browser, Undefined,
                       Undefined, by))]

\* lines 158-166: what stopBrowser(p) returns before it touches anything;
\* "none" when it goes on to close the browser
StopBrowserReturnsEarly(p) ==
    IF IsStopping(p) THEN "true"
    ELSE IF MapGet(activeSessions, p) = NoSession THEN "false"
    ELSE "none"

\* lines 156-175: stopBrowser up to its await; a call that returns early
\* changes nothing in the service
StopBrowser(p) ==
    /\ IF StopBrowserReturnsEarly(p) # "none"
       THEN UNCHANGED <<stoppingProfiles, browsers, calls, last>>
       ELSE /\ CanSuspend(calls)
            /\ LET st == StopAcquire(p, "api",
                            [stopping |-> stoppingProfiles,
                             browsers |-> browsers, calls |-> calls])
               IN  /\ stoppingProfiles' = st.stopping
                   /\ browsers' = st.browsers
                   /\ calls' = st.calls
            /\ last' = NoEvent
    /\ history' = [history EXCEPT ![p] = "none"]
    /\ UNCHANGED <<activeSessions, startingProfiles, stopAll, envVars,
                   apiVars>>

\* stopBrowser with a catch block that rethrows
StopReturnsOrRethrows(closeOk) ==
    IF closeOk THEN "true" ELSE "CLOSE_FAILED"

\* lines 181 and 186: what stopBrowser returns after close resolved (the try
\* block) and after it rejected (the catch block)
StopReturns(closeOk) ==
    IF closeOk THEN "true" ELSE "true"

\* close settles in a stopBrowser without the finally block
StopCloseReturnsKeepsGuard(c, closeOk) ==
    /\ c.op = "stopBrowser" /\ c.pc = "close"
    /\ activeSessions' = MapDelete(activeSessions, c.profileId)
    /\ stoppingProfiles' = stoppingProfiles
    /\ calls' = Settle(calls, c)
    /\ last' = Returned("stopBrowser", c.profileId, "true", c.browser)
    /\ UNCHANGED <<startingProfiles, browsers, stopAll, history, envVars,
                   apiVars>>

\* lines 175-190: close settles; resolved or rejected, the entry is deleted,
\* true returned and the guard released
StopCloseReturns(c, closeOk) ==
    /\ c.op = "stopBrowser" /\ c.pc = "close"
    /\ activeSessions' = MapDelete(activeSessions, c.profileId)
    /\ stoppingProfiles' = stoppingProfiles \ {c.profileId}
    /\ calls' = Settle(calls, c)
    /\ last' = Returned("stopBrowser", c.profileId, StopReturns(closeOk),
                      c.browser)
    /\ UNCHANGED <<startingProfiles, browsers, stopAll, history, envVars,
                   apiVars>>

\* ------------------------------------------------------ getBrowserStatus
\* lines 198-212, without the uptime (which moves with the clock); NoStatus
\* stands for null
NoStatus == [profileId |-> Undefined, profileName |-> Undefined,
             status |-> Undefined, startTime |-> Undefined,
             headless |-> Undefined]

GetBrowserStatus(m, p) ==
    IF MapGet(m, p) = NoSession THEN NoStatus
    ELSE [profileId |-> p,
          profileName |-> MapGet(m, p).profile.name,
          status |-> MapGet(m, p).status,
          startTime |-> MapGet(m, p).startTime,
          headless |-> MapGet(m, p).headless]

\* lines 218-231 with the first entry of the registry left out
GetAllActiveSessionsButFirst(m) ==
    [i \in 1..(Len(m) - 1) |->
        [profileId |-> m[i + 1].key,
         profileName |-> m[i + 1].value.profile.name,
         status |-> m[i + 1].value.status,
         startTime |-> m[i + 1].value.startTime,
         headless |-> m[i + 1].value.headless]]

\* lines 218-231, without the uptime: one object for each entry of the Map,
\* in its iteration order
GetAllActiveSessions(m) ==
    [i \in 1..Len(m) |->
        [profileId |-> m[i].key,
         profileName |-> m[i].value.profile.name,
         status |-> m[i].value.status,
         startTime |-> m[i].value.startTime,
         headless |-> m[i].value.headless]]

\* a call of getBrowserStatus(p): synchronous, it returns at once
GetBrowserStatusCall(p) ==
    /\ last' = Returned("getBrowserStatus", p,
                        GetBrowserStatus(activeSessions, p), NoBrowser)
    /\ UNCHANGED <<activeSessions, startingProfiles, stoppingProfiles, calls,
                   browsers, stopAll, history, envVars, apiVars>>

\* a call of getAllActiveSessions(): synchronous, it returns at once
GetAllActiveSessionsCall ==
    /\ last' = Returned("getAllActiveSessions", Undefined,
                        GetAllActiveSessions(activeSessions), NoBrowser)
    /\ UNCHANGED <<activeSessions, startingProfiles, stoppingProfiles, calls,
                   browsers, stopAll, history, envVars, apiVars>>

\* line 210 with the operands of the subtraction exchanged
UptimeReversed(session, now) ==
    (GetTime(session.startTime) - now) \div 1000

\* line 210: Math.floor((Date.now() - new Date(session.startTime).getTime())
\* / 1000), the uptime getBrowserStatus reports at the instant now
Uptime(session, now) ==
    (now - GetTime(session.startTime)) \div 1000

\* ------------------------------------------------------- stopAllBrowsers
\* lines 237-238: stopBrowser is called for every key of the snapshot, in
\* Map order; each call runs up to its await before the next one starts
RECURSIVE StopEach(_, _)
StopEach(keys, st) ==
    IF keys = << >> THEN st
    ELSE IF Head(keys) \in st.stopping
         THEN StopEach(Tail(keys), st)
         ELSE StopEach(Tail(keys), StopAcquire(Head(keys), "stopAll", st))

\* the stopBrowser calls of stopAllBrowsers that have not settled
StopAllPending == {c \in InFlight : c.caller = "stopAll"}

\* lines 236-245: stopAllBrowsers up to await Promise.all.  When none of its
\* stopBrowser calls has to wait (no key, or every key already being
\* stopped), every promise is resolved already and stopAllBrowsers returns
\* before any other handler runs
StopAllCalls ==
    /\ stopAll = "idle"
    /\ LET keys == [i \in 1..Len(activeSessions) |-> activeSessions[i].key]
           st == StopEach(keys, [stopping |-> stoppingProfiles,
                                 browsers |-> browsers, calls |-> calls])
       IN  /\ BagCardinality(st.calls) <= MaxCalls
           /\ stoppingProfiles' = st.stopping
           /\ browsers' = st.browsers
           /\ calls' = st.calls
           /\ IF st.calls = calls
              THEN /\ stopAll' = "idle"
                   /\ last' = Returned("stopAllBrowsers", Undefined,
                                       "undefined", NoBrowser)
              ELSE /\ stopAll' = "awaiting"
                   /\ last' = NoEvent
    /\ history' = [p \in AllProfiles |->
                     IF p \in MapKeys(activeSessions) THEN "none" ELSE history[p]]
    /\ UNCHANGED <<activeSessions, startingProfiles>>

StopAllBrowsers == StopAllCalls /\ UNCHANGED <<envVars, apiVars>>

\* stopAllBrowsers without the await of its stopBrowser promises
StopAllReturnsWithoutAwait ==
    /\ stopAll = "awaiting"
    /\ stopAll' = "idle"
    /\ last' = Returned("stopAllBrowsers", Undefined, "undefined", NoBrowser)
    /\ UNCHANGED <<activeSessions, startingProfiles, stoppingProfiles, calls,
                   browsers, history, envVars, apiVars>>

\* lines 241-245: every stopBrowser promise has settled
StopAllReturns ==
    /\ stopAll = "awaiting" /\ StopAllPending = {}
    /\ stopAll' = "idle"
    /\ last' = Returned("stopAllBrowsers", Undefined, "undefined", NoBrowser)
    /\ UNCHANGED <<activeSessions, startingProfiles, stoppingProfiles, calls,
                   browsers, history, envVars, apiVars>>

\* ------------------------------------------------------------ error text
\* a message is the sequence of its words and marks; a profile id put into
\* a template literal contributes its own words
\* an id under which no profile is stored, made of two words (the path
\* segment already%20running)
TwoWordId == "already running"
IdTokens(id) == IF id = TwoWordId THEN <<"already", "running">> ELSE <<id>>

\* String.prototype.includes, on words
Includes(msg, part) ==
    \E i \in 1..(Len(msg) - Len(part) + 1) :
        SubSeq(msg, i, i + Len(part) - 1) = part

\* no error thrown
NotThrown == [message |-> << >>, code |-> "none", profileId |-> Undefined,
              name |-> "none"]

\* lines 257 and 279: new Error(`No active browser session for profile:
\* ${profileId}`), which has a message and no code
NoActiveSessionError(id) ==
    [message |-> <<"No", "active", "browser", "session", "for", "profile",
                   ":">> \o IdTokens(id),
     code |-> Undefined, profileId |-> Undefined, name |-> "Error"]

\* line 23: new Error(`Browser is currently starting for profile
\* ${profileId}`), a message and no code
AlreadyStartingError(id) ==
    [message |-> <<"Browser", "is", "currently", "starting", "for",
                   "profile">> \o IdTokens(id),
     code |-> Undefined, profileId |-> Undefined, name |-> "Error"]

\* lines 28-30: the error for a profile that has a session
SessionActiveError(id) ==
    [message |-> <<"Browser", "session", "already", "running", "for", "this",
                   "profile">>,
     code |-> "SESSION_ACTIVE", profileId |-> id, name |-> "Error"]

\* lines 41-43: the error for a profile the store does not have
ProfileNotFoundError(id) ==
    [message |-> <<"Profile", "not", "found", ":">> \o IdTokens(id),
     code |-> "PROFILE_NOT_FOUND", profileId |-> id, name |-> "Error"]

\* lines 67-68: the error for a launch that found no browser executable
BrowserNotFoundError ==
    [message |-> <<"Browser", "executable", "not", "found", ".", "Please",
                   "install", "Chrome/Firefox", ".">>,
     code |-> "BROWSER_NOT_FOUND", profileId |-> Undefined, name |-> "Error"]

\* lines 74-75: new Error(`Failed to launch browser: ${launchError.message}`)
LaunchFailedError(engineMessage) ==
    [message |-> <<"Failed", "to", "launch", "browser", ":">>
                    \o engineMessage,
     code |-> "LAUNCH_FAILED", profileId |-> Undefined, name |-> "Error"]

\* an error of the engine that the service rethrows as it is (lines 144, 266
\* and 298)
EngineError(engineMessage) ==
    [message |-> engineMessage, code |-> Undefined, profileId |-> Undefined,
     name |-> "Error"]

\* the messages puppeteer.launch fails with: no executable at the configured
\* path, a user data directory another browser holds, and a browser that did
\* not come up in time
LaunchMessages ==
    {<<"Failed", "to", "launch", "the", "browser", "process", "!", "spawn",
       "/usr/bin/chrome", "ENOENT">>,
     <<"The", "browser", "is", "already", "running", "for",
       "./data/browser-profiles/p1", ".">>,
     <<"Timed", "out", "after", "60000", "ms", "while", "waiting", "for",
       "the", "WS", "endpoint">>}

\* the messages page.goto and page.evaluate fail with
PageMessages ==
    {<<"Navigation", "timeout", "of", "30000", "ms", "exceeded">>,
     <<"Execution", "context", "was", "destroyed">>}

\* lines 61-66 without the test for 'spawn'
LaunchOutcomeWithoutSpawn(engineMessage) ==
    IF /\ engineMessage # << >>
       /\ \/ Includes(engineMessage, <<"executable">>)
          \/ Includes(engineMessage, <<"ENOENT">>)
          \/ Includes(engineMessage, <<"not", "found">>)
    THEN "BROWSER_NOT_FOUND"
    ELSE "LAUNCH_FAILED"

\* lines 61-66 and 74-75: the code startBrowser gives a launch error, from
\* the words of its message (the tests are case sensitive)
LaunchOutcome(engineMessage) ==
    IF /\ engineMessage # << >>
       /\ \/ Includes(engineMessage, <<"executable">>)
          \/ Includes(engineMessage, <<"ENOENT">>)
          \/ Includes(engineMessage, <<"spawn">>)
          \/ Includes(engineMessage, <<"not", "found">>)
    THEN "BROWSER_NOT_FOUND"
    ELSE "LAUNCH_FAILED"

\* lines 58-77: what the catch of the launch throws for the engine error
\* launchError, with the originalError property it sets on it
LaunchCatch(engineMessage) ==
    [error |-> IF LaunchOutcome(engineMessage) = "BROWSER_NOT_FOUND"
               THEN BrowserNotFoundError
               ELSE LaunchFailedError(engineMessage),
     originalError |-> EngineError(engineMessage)]

\* lines 22-32: the error object startBrowser(p) throws at its guards
StartBrowserError(p) ==
    IF StartBrowserThrows(p).code = "ALREADY_STARTING"
    THEN AlreadyStartingError(p)
    ELSE IF StartBrowserThrows(p).code = "SESSION_ACTIVE"
    THEN SessionActiveError(p)
    ELSE NotThrown

\* String.prototype.toLowerCase, word by word
LowerWord(w) ==
    CASE w = "No" -> "no"
      [] w = "Browser" -> "browser"
      [] w = "Profile" -> "profile"
      [] w = "Failed" -> "failed"
      [] w = "Please" -> "please"
      [] w = "Chrome/Firefox" -> "chrome/firefox"
      [] w = "The" -> "the"
      [] w = "Timed" -> "timed"
      [] w = "WS" -> "ws"
      [] w = "ENOENT" -> "enoent"
      [] w = "Navigation" -> "navigation"
      [] w = "Execution" -> "execution"
      [] OTHER -> w

ToLowerCase(msg) == [i \in 1..Len(msg) |-> LowerWord(msg[i])]

\* ------------------------------------------- navigateToUrl, executeScript
\* the URLs the callers ask for
Urls == {"https://a.example/"}
\* where a navigation to u can end: at u, or where the site redirects to
LandingUrls(u) == {u, "https://www.example/landing"}
\* the scripts the callers pass
Scripts == {"document.title"}

\* page.title() of a page showing url, and page.evaluate(script) on it
TitleOf(url) == <<"title", url>>
EvaluateOn(url, script) == <<"value", script, url>>

\* a suspended navigateToUrl or executeScript call: its argument, and the
\* currentUrl local of navigateToUrl
PageCall(o, p, at, b, a, seen) ==
    [op |-> o, profileId |-> p, pc |-> at, browser |-> b, caller |-> "api",
     arg |-> a, currentUrl |-> seen]

PageCallsInFlight ==
    LET cs == {c \in InFlight : c.op \in {"navigateToUrl", "executeScript"}}
    IN  BagCardinality([c \in cs |-> calls[c]])

\* a lookup that finds a session for every profile
PageThrowsNever(m, p) == NotThrown

\* lines 255-258 and 277-280: the session lookup of both page operations
PageThrows(m, p) ==
    IF MapGet(m, p) = NoSession THEN NoActiveSessionError(p) ELSE NotThrown

\* lines 277-280: the error navigateToUrl(p, *) throws before it touches
\* anything
NavigateToUrlThrows(p) == PageThrows(activeSessions, p)

\* lines 255-258: the same for executeScript(p, *)
ExecuteScriptThrows(p) == PageThrows(activeSessions, p)

\* lines 276-286: navigateToUrl up to its await of page.goto(url, ...)
NavigateToUrl(p, u) ==
    IF NavigateToUrlThrows(p) # NotThrown
    THEN UNCHANGED vars
    ELSE LET b == MapGet(activeSessions, p).browser
         IN  /\ CanSuspend(calls)
             /\ PageCallsInFlight < MaxPageCalls
             /\ browsers' = [browsers EXCEPT ![b].gotoUrl = u]
             /\ calls' = Suspend(calls,
                    PageCall("navigateToUrl", p, "goto", b, u, Undefined))
             /\ last' = NoEvent
             /\ UNCHANGED <<activeSessions, startingProfiles,
                            stoppingProfiles, stopAll, history, envVars,
                            apiVars>>

\* what the caller of a rejected navigateToUrl gets in the place of a result
Rejected == [success |-> FALSE, url |-> Undefined, title |-> << >>]

\* line 288 read as the URL that was asked for
CurrentUrlRequested(bs, c) == c.arg

\* line 288: session.page.url()
CurrentUrl(bs, c) == bs[c.browser].url

\* lines 283-294: page.goto resolved with the page at landed; the URL is
\* read from the page and page.title() awaited
NavGotoReturns(c, landed) ==
    /\ c.op = "navigateToUrl" /\ c.pc = "goto"
    /\ landed \in LandingUrls(c.arg)
    /\ ~browsers[c.browser].disconnected
    /\ ~NavigationDoomed(browsers, c.browser)
    /\ browsers' = [browsers EXCEPT ![c.browser].url = landed]
    /\ calls' = Suspend(Settle(calls, c),
                  [c EXCEPT !.pc = "title",
                            !.currentUrl = CurrentUrl(browsers', c)])
    /\ last' = NoEvent
    /\ UNCHANGED <<activeSessions, startingProfiles, stoppingProfiles,
                   stopAll, history, envVars, apiVars>>

\* lines 291-295: page.title() resolved; the result is returned
NavTitleReturns(c) ==
    /\ c.op = "navigateToUrl" /\ c.pc = "title"
    /\ calls' = Settle(calls, c)
    /\ last' = Returned("navigateToUrl", c.profileId,
                   [success |-> TRUE, url |-> c.currentUrl,
                    title |-> TitleOf(browsers[c.browser].url)],
                   c.browser)
    /\ UNCHANGED <<activeSessions, startingProfiles, stoppingProfiles,
                   browsers, stopAll, history, envVars, apiVars>>

\* lines 296-299 with a catch block that drops the session of the page
NavigateFailsAndForgets(c) ==
    /\ c.op = "navigateToUrl"
    /\ calls' = Settle(calls, c)
    /\ activeSessions' = MapDelete(activeSessions, c.profileId)
    /\ last' = Returned("navigateToUrl", c.profileId, Rejected, c.browser)
    /\ UNCHANGED <<startingProfiles, stoppingProfiles,
                   browsers, stopAll, history, envVars, apiVars>>

\* lines 296-299: page.goto or page.title() rejected (failure or timeout);
\* the error is logged and rethrown
NavigateFails(c) ==
    /\ c.op = "navigateToUrl"
    /\ calls' = Settle(calls, c)
    /\ last' = Returned("navigateToUrl", c.profileId, Rejected, c.browser)
    /\ UNCHANGED <<activeSessions, startingProfiles, stoppingProfiles,
                   browsers, stopAll, history, envVars, apiVars>>

\* lines 254-261: executeScript up to its await of page.evaluate(script)
ExecuteScript(p, script) ==
    IF ExecuteScriptThrows(p) # NotThrown
    THEN UNCHANGED vars
    ELSE LET b == MapGet(activeSessions, p).browser
         IN  /\ CanSuspend(calls)
             /\ PageCallsInFlight < MaxPageCalls
             /\ UNCHANGED browsers
             /\ calls' = Suspend(calls,
                    PageCall("executeScript", p, "evaluate", b, script,
                             Undefined))
             /\ last' = NoEvent
             /\ UNCHANGED <<activeSessions, startingProfiles,
                            stoppingProfiles, stopAll, history, envVars,
                            apiVars>>

\* lines 261-267: page.evaluate settled; its value is returned as it is, its
\* error rethrown
EvaluateReturns(c, ok) ==
    /\ c.op = "executeScript" /\ c.pc = "evaluate"
    /\ calls' = Settle(calls, c)
    /\ last' = Returned("executeScript", c.profileId,
                   IF ok THEN EvaluateOn(browsers[c.browser].url, c.arg)
                   ELSE <<"engine error">>,
                   c.browser)
    /\ UNCHANGED <<activeSessions, startingProfiles, stoppingProfiles,
                   browsers, stopAll, history, envVars, apiVars>>

\* ---------------------------------------------------- disconnected event
\* lines 96-99: the engine emits 'disconnected' on browser b (crash, manual
\* close, or as a consequence of close), once per browser
Disconnected(b) ==
    /\ b \in 1..Len(browsers)
    /\ ~browsers[b].disconnected
    /\ browsers' = [browsers EXCEPT ![b].disconnected = TRUE]
    /\ activeSessions' = MapDelete(activeSessions, browsers[b].profileId)
    /\ last' = NoEvent
    /\ history' = [history EXCEPT ![browsers[b].profileId] =
                      IF @ = "started" THEN "disconnected"
                      ELSE IF @ = "launched" THEN "lost" ELSE @]
    /\ UNCHANGED <<startingProfiles, stoppingProfiles, calls, stopAll,
                   envVars, apiVars>>

\* ------------------------------------------------------------ HTTP layer
\* middleware/errorHandler.js and routes/profiles.js, mounted at
\* /api/profiles.  A request is the route, the :id of its path and the error
\* the service call ended with; a response is its status, the error code of
\* its body and the data of its body
NoRequest == [route |-> "none", id |-> Undefined, error |-> NotThrown]
NoResponse == [statusCode |-> 0, errorCode |-> "none", data |-> Null]

\* res.status(statusCode).json(body)
Response(status, code) ==
    [statusCode |-> status, errorCode |-> code, data |-> Null]

\* error codes that begin with SQLITE_
SqliteCodes == {"SQLITE_CONSTRAINT_UNIQUE", "SQLITE_ERROR"}

\* errorHandler lines 41-76: status and code from the words of the lower
\* cased message (the two Vietnamese phrases are written without their
\* diacritics); S001 and 500 when nothing matches
ByMessage(error) ==
    LET msg == ToLowerCase(error.message)
    IN  IF error.message = << >> THEN Response(500, "S001")
        ELSE IF \/ Includes(msg, <<"not", "found">>)
                \/ Includes(msg, <<"khong", "tim", "thay">>)
        THEN Response(404,
                 IF Includes(msg, <<"profile">>) THEN "P001"
                 ELSE IF Includes(msg, <<"proxy">>) THEN "X001"
                 ELSE "S001")
        ELSE IF \/ Includes(msg, <<"already", "exists">>)
                \/ Includes(msg, <<"da", "ton", "tai">>)
        THEN Response(409,
                 IF Includes(msg, <<"profile">>) THEN "P002"
                 ELSE IF Includes(msg, <<"proxy">>) THEN "X004"
                 ELSE "S001")
        ELSE IF Includes(msg, <<"already", "running">>)
        THEN Response(409, "B001")
        ELSE IF \/ Includes(msg, <<"no", "active", "browser">>)
                \/ Includes(msg, <<"not", "running">>)
        THEN Response(404, "B002")
        ELSE IF Includes(msg, <<"validation">>) \/ error.name = "ZodError"
        THEN Response(400, "V001")
        ELSE Response(500, "S001")

\* errorHandler lines 21-123 for an error that is not an AppError (the
\* service throws plain Error objects): the message patterns, then the
\* overrides by name and by code
ErrorHandler(error) ==
    LET m == ByMessage(error)
        z == IF error.name = "ZodError" THEN Response(400, "V001") ELSE m
        q == IF error.code \in SqliteCodes
             THEN (IF error.code = "SQLITE_CONSTRAINT_UNIQUE"
                   THEN Response(409, "P002") ELSE Response(500, "S002"))
             ELSE z
    IN  IF error.code = "ECONNREFUSED" THEN Response(503, q.errorCode)
        ELSE IF error.code = "ETIMEDOUT" THEN Response(504, q.errorCode)
        ELSE q

\* the ids the clients put into the path: a stored profile, and an id no
\* profile is stored under
ApiProfiles == {"p1"}
ApiIds == ApiProfiles \cup {TwoWordId}

\* a step has settled a service call a route waits for, and the route has
\* not answered yet
ResponsePending ==
    last.op \in {"startBrowser", "stopBrowser", "navigateToUrl",
                 "executeScript"}

\* the client sends a request when the one before is answered; a request
\* the service turns away at once can come at any time
Accepts(turnedAway) ==
    ~ResponsePending /\ (InFlight = {} \/ turnedAway)

\* the service call of the route threw at once: next(error) hands the error
\* to errorHandler
RouteRejects(route, id, error) ==
    /\ req' = [route |-> route, id |-> id, error |-> error]
    /\ res' = ErrorHandler(error)
    /\ UNCHANGED <<activeSessions, startingProfiles, stoppingProfiles, calls,
                   browsers, stopAll, last, history, envVars>>

\* POST /:id/start, lines 224-249, up to the await of startBrowser
PostStart(id, optHeadless) ==
    /\ Accepts(StartBrowserError(id) # NotThrown)
    /\ IF StartBrowserError(id) # NotThrown
       THEN RouteRejects("start", id, StartBrowserError(id))
       ELSE StartBrowser(id, optHeadless)

\* POST /:id/stop, lines 255-278, up to the await of stopBrowser; false is
\* answered with 404
PostStop(id) ==
    /\ Accepts(StopBrowserReturnsEarly(id) # "none")
    /\ IF StopBrowserReturnsEarly(id) # "none"
       THEN /\ req' = [route |-> "stop", id |-> id, error |-> NotThrown]
            /\ res' = Response(IF StopBrowserReturnsEarly(id) = "false"
                               THEN 404 ELSE 200, "none")
            /\ history' = [history EXCEPT ![id] = "none"]
            /\ UNCHANGED <<activeSessions, startingProfiles,
                           stoppingProfiles, calls, browsers, stopAll, last,
                           envVars>>
       ELSE StopBrowser(id)

\* POST /:id/navigate, lines 327-352, up to the await of navigateToUrl
PostNavigate(id, u) ==
    /\ Accepts(NavigateToUrlThrows(id) # NotThrown)
    /\ IF NavigateToUrlThrows(id) # NotThrown
       THEN RouteRejects("navigate", id, NavigateToUrlThrows(id))
       ELSE NavigateToUrl(id, u)

\* POST /:id/execute, lines 358-383, up to the await of executeScript
PostExecute(id, script) ==
    /\ Accepts(ExecuteScriptThrows(id) # NotThrown)
    /\ IF ExecuteScriptThrows(id) # NotThrown
       THEN RouteRejects("execute", id, ExecuteScriptThrows(id))
       ELSE ExecuteScript(id, script)

\* routes/profiles.js line 198: BrowserService.stopBrowser(id), where
\* BrowserService is the class the service module exports (line 80 of the
\* routes, the last line of the service).  stopBrowser is a method of the
\* instances, so the call throws a TypeError before anything runs
StopBrowserOnClass(id) ==
    [message |-> <<"BrowserService.stopBrowser", "is", "not", "a",
                   "function">>,
     code |-> Undefined, profileId |-> Undefined, name |-> "TypeError"]

\* DELETE /:id, lines 194-218: the stop of the browser throws and the catch
\* of lines 199-201 drops the error; the profile store then says whether it
\* deleted the profile, and the route answers 200 or 404.  The route awaits
\* the store only, and touches nothing of the service before or after
DeleteProfileRoute(id, deleted) ==
    /\ ~ResponsePending
    /\ StopBrowserOnClass(id) # NotThrown
    /\ req' = [route |-> "delete", id |-> id, error |-> NotThrown]
    /\ res' = Response(IF deleted THEN 200 ELSE 404, "none")
    /\ UNCHANGED <<activeSessions, startingProfiles, stoppingProfiles, calls,
                   browsers, stopAll, last, history, envVars>>

\* the last call of a client of the service: stopAllBrowsers as its cleanup
\* (src/unnamed/part_001 line 180); req keeps that the cleanup has begun
Cleanup == [route |-> "cleanup", id |-> Undefined, error |-> NotThrown]
CleanupBegins ==
    /\ req # Cleanup
    /\ StopAllCalls
    /\ req' = Cleanup
    /\ UNCHANGED <<res, envVars>>

\* the route of the call a step settled
RouteOf(ev) ==
    CASE ev.op = "startBrowser" -> "start"
      [] ev.op = "stopBrowser" -> "stop"
      [] ev.op = "navigateToUrl" -> "navigate"
      [] ev.op = "executeScript" -> "execute"

\* the error object the settled call rejected with, NotThrown when it
\* resolved; engineMessage is the message of the engine error behind a
\* launch, navigation or script failure
ServiceError(ev, engineMessage) ==
    CASE ev.op = "startBrowser" ->
            (IF ev.result = "running" THEN NotThrown
             ELSE IF ev.result = "PROFILE_NOT_FOUND"
             THEN ProfileNotFoundError(ev.profileId)
             ELSE IF ev.result = "BROWSER_NOT_FOUND" THEN BrowserNotFoundError
             ELSE IF ev.result = "LAUNCH_FAILED"
             THEN LaunchFailedError(engineMessage)
             ELSE EngineError(engineMessage))
      [] ev.op = "stopBrowser" -> NotThrown
      [] ev.op = "navigateToUrl" ->
            (IF ev.result = Rejected THEN EngineError(engineMessage)
             ELSE NotThrown)
      [] ev.op = "executeScript" ->
            (IF ev.result = <<"engine error">> THEN EngineError(engineMessage)
             ELSE NotThrown)

\* the engine messages that can be behind the settled call
EngineMessagesOf(ev) ==
    IF ServiceError(ev, << >>) = NotThrown
       \/ (ev.op = "startBrowser" /\ ev.result = "PROFILE_NOT_FOUND")
    THEN {<< >>}
    ELSE IF ev.op = "startBrowser"
            /\ ev.result \in {"BROWSER_NOT_FOUND", "LAUNCH_FAILED"}
    THEN {m \in LaunchMessages : LaunchOutcome(m) = ev.result}
    ELSE PageMessages

\* the rest of a route after its service call settled: res.json on success,
\* next(error) and errorHandler on failure
RouteResponds(engineMessage) ==
    /\ ResponsePending
    /\ engineMessage \in EngineMessagesOf(last)
    /\ req' = [route |-> RouteOf(last), id |-> last.profileId,
               error |-> ServiceError(last, engineMessage)]
    /\ res' = IF ServiceError(last, engineMessage) = NotThrown
              THEN Response(200, "none")
              ELSE ErrorHandler(ServiceError(last, engineMessage))
    /\ last' = NoEvent
    /\ UNCHANGED <<activeSessions, startingProfiles, stoppingProfiles, calls,
                   browsers, stopAll, history, envVars>>

\* the profiles a start can be asked for: the stored profile q1 with every
\* proxy setting
ProxyHosts == {"h1", "h2"}
ProxyUsernames == {"u1", "u2", Undefined}
ProxyPasswords == {"s1", "s2", Undefined}
StoredProfiles ==
    {[Profile("q1") EXCEPT !.proxy = px] :
        px \in {Null} \cup {Some(Proxy(h, u, pw)) :
                   h \in ProxyHosts, u \in ProxyUsernames,
                   pw \in ProxyPasswords}}

\* POST /:id/start for a start that succeeds at time t: startBrowser returns
\* its summary and the route sends it as the data of the response
StartResponds(profile, headless, t) ==
    /\ req' = [route |-> "start", id |-> profile.id, error |-> NotThrown,
               profile |-> profile]
    /\ res' = [statusCode |-> 200, errorCode |-> "none",
               data |-> Some(StartSummary(profile.id, profile,
                                          ToISOString(t), headless))]
    /\ UNCHANGED <<activeSessions, startingProfiles, stoppingProfiles, calls,
                   browsers, stopAll, last, history, envVars>>

Init ==
    /\ activeSessions = << >>
    /\ startingProfiles = {}
    /\ stoppingProfiles = {}
    /\ calls = EmptyBag
    /\ browsers = << >>
    /\ stopAll = "idle"
    /\ last = NoEvent
    /\ history = [p \in AllProfiles |-> "none"]
    /\ puppeteerArgs = << >>
    /\ clock = 0
    /\ shutdown = "none"
    /\ req = NoRequest
    /\ res = NoResponse

Next ==
    \/ \E p \in Profiles, oh \in HeadlessOptions : StartBrowser(p, oh)
    \/ \E c \in InFlight, found \in BOOLEAN : GetProfileReturns(c, found)
    \/ \E c \in InFlight,
          o \in {"launched", "BROWSER_NOT_FOUND", "LAUNCH_FAILED"} :
          LaunchReturns(c, o)
    \/ \E c \in InFlight, ok \in BOOLEAN : GotoReturns(c, ok)
    \/ \E c \in InFlight, closeOk \in BOOLEAN :
          CleanupCloseReturns(c, closeOk)
    \/ \E p \in Profiles : StopBrowser(p)
    \/ \E c \in InFlight, closeOk \in BOOLEAN : StopCloseReturns(c, closeOk)
    \/ StopAllBrowsers
    \/ StopAllReturns
    \/ \E b \in 1..MaxBrowsers : Disconnected(b)

Spec == Init /\ [][Next]_vars

\* ---------------------------------------------- one profile and the clock
\* half a second passes
Tick ==
    /\ clock < MaxTicks * 500
    /\ clock' = clock + 500
    /\ UNCHANGED <<activeSessions, startingProfiles, stoppingProfiles, calls,
                   browsers, stopAll, last, history, puppeteerArgs, shutdown,
                   apiVars>>

\* the profile that is started, looked at and stopped while time passes
ClockProfiles == {"p1"}

NextClock ==
    \/ \E p \in ClockProfiles, oh \in HeadlessOptions : StartBrowser(p, oh)
    \/ \E c \in InFlight, found \in BOOLEAN : GetProfileReturns(c, found)
    \/ \E c \in InFlight,
          o \in {"launched", "BROWSER_NOT_FOUND", "LAUNCH_FAILED"} :
          LaunchReturns(c, o)
    \/ \E c \in InFlight, ok \in BOOLEAN : GotoReturns(c, ok)
    \/ \E c \in InFlight, closeOk \in BOOLEAN :
          CleanupCloseReturns(c, closeOk)
    \/ \E p \in ClockProfiles : StopBrowser(p)
    \/ \E c \in InFlight, closeOk \in BOOLEAN : StopCloseReturns(c, closeOk)
    \/ \E b \in 1..MaxBrowsers : Disconnected(b)
    \/ Tick

SpecClock == Init /\ [][NextClock]_vars

\* ------------------------------------------------------------- shutdown
\* lines 6-10: a BrowserService as its constructor leaves it
NewBrowserService ==
    [activeSessions |-> << >>, startingProfiles |-> {},
     stoppingProfiles |-> {}]

\* the SIGINT handler of the server, up to its await: it makes a
\* BrowserService of its own and calls stopAllBrowsers on it, which closes
\* the browser of every session that service holds
Sigint ==
    /\ shutdown = "none"
    /\ LET service == NewBrowserService
           handles == {MapGet(service.activeSessions, p).browser :
                          p \in MapKeys(service.activeSessions)}
       IN  browsers' = [b \in 1..Len(browsers) |->
                          IF b \in handles
                          THEN [browsers[b] EXCEPT !.closeCalls = @ + 1]
                          ELSE browsers[b]]
    /\ shutdown' = "stopping"
    /\ last' = NoEvent
    /\ UNCHANGED <<activeSessions, startingProfiles, stoppingProfiles, calls,
                   stopAll, history, puppeteerArgs, clock, apiVars>>

\* the handler goes on after stopAllBrowsers: process.exit(0)
ProcessExits ==
    /\ shutdown = "stopping"
    /\ shutdown' = "exited"
    /\ UNCHANGED <<activeSessions, startingProfiles, stoppingProfiles, calls,
                   browsers, stopAll, last, history, puppeteerArgs, clock,
                   apiVars>>

\* the process runs
Alive == shutdown # "exited"

NextShutdown ==
    \/ \E p \in Profiles, oh \in HeadlessOptions : Alive /\ StartBrowser(p, oh)
    \/ \E c \in InFlight, found \in BOOLEAN :
          Alive /\ GetProfileReturns(c, found)
    \/ \E c \in InFlight,
          o \in {"launched", "BROWSER_NOT_FOUND", "LAUNCH_FAILED"} :
          Alive /\ LaunchReturns(c, o)
    \/ \E c \in InFlight, ok \in BOOLEAN : Alive /\ GotoReturns(c, ok)
    \/ \E c \in InFlight, closeOk \in BOOLEAN :
          Alive /\ CleanupCloseReturns(c, closeOk)
    \/ \E p \in Profiles : Alive /\ StopBrowser(p)
    \/ \E c \in InFlight, closeOk \in BOOLEAN :
          Alive /\ StopCloseReturns(c, closeOk)
    \/ \E b \in 1..MaxBrowsers : Alive /\ Disconnected(b)
    \/ Sigint
    \/ ProcessExits

SpecShutdown == Init /\ [][NextShutdown]_vars

\* ----------------------------------------- one profile and its page
\* the profile whose page is driven; its client starts and stops it one call
\* at a time, and drives the page meanwhile
PageProfiles == {"p1"}

LifecycleIdle ==
    \A c \in InFlight : c.op \notin {"startBrowser", "stopBrowser"}

NextPage ==
    \/ \E p \in PageProfiles, oh \in HeadlessOptions :
          LifecycleIdle /\ StartBrowser(p, oh)
    \/ \E c \in InFlight, found \in BOOLEAN : GetProfileReturns(c, found)
    \/ \E c \in InFlight,
          o \in {"launched", "BROWSER_NOT_FOUND", "LAUNCH_FAILED"} :
          LaunchReturns(c, o)
    \/ \E c \in InFlight, ok \in BOOLEAN : GotoReturns(c, ok)
    \/ \E c \in InFlight, closeOk \in BOOLEAN :
          CleanupCloseReturns(c, closeOk)
    \/ \E p \in PageProfiles : LifecycleIdle /\ StopBrowser(p)
    \/ \E c \in InFlight, closeOk \in BOOLEAN : StopCloseReturns(c, closeOk)
    \/ \E b \in 1..MaxBrowsers : Disconnected(b)
    \/ \E p \in Profiles, u \in Urls : NavigateToUrl(p, u)
    \/ \E c \in InFlight, landed \in UNION {LandingUrls(u) : u \in Urls} :
          NavGotoReturns(c, landed)
    \/ \E c \in InFlight : NavTitleReturns(c)
    \/ \E c \in InFlight : NavigateFails(c)
    \/ \E p \in Profiles, script \in Scripts : ExecuteScript(p, script)
    \/ \E c \in InFlight, ok \in BOOLEAN : EvaluateReturns(c, ok)

SpecPage == Init /\ [][NextPage]_vars

\* ------------------------------------------- the headless mode of a start
\* the options.headless values of the starts: absent, true and false
HeadlessInputs == {Undefined, "true", "false"}

\* starts with every headless option, of a profile without a default and of
\* one whose default is true; the client starts and stops one call at a time
NextHeadless ==
    \/ \E p \in Profiles, oh \in HeadlessInputs :
          LifecycleIdle /\ StartBrowser(p, oh)
    \/ \E c \in InFlight, found \in BOOLEAN : GetProfileReturns(c, found)
    \/ \E c \in InFlight,
          o \in {"launched", "BROWSER_NOT_FOUND", "LAUNCH_FAILED"} :
          LaunchReturns(c, o)
    \/ \E c \in InFlight, ok \in BOOLEAN : GotoReturns(c, ok)
    \/ \E c \in InFlight, closeOk \in BOOLEAN :
          CleanupCloseReturns(c, closeOk)
    \/ \E p \in Profiles : LifecycleIdle /\ StopBrowser(p)
    \/ \E c \in InFlight, closeOk \in BOOLEAN : StopCloseReturns(c, closeOk)
    \/ \E b \in 1..MaxBrowsers : Disconnected(b)

SpecHeadless == Init /\ [][NextHeadless]_vars

\* ------------------------------------------------- the routes of the API
NextApi ==
    \/ \E id \in ApiProfiles, oh \in HeadlessOptions : PostStart(id, oh)
    \/ \E c \in InFlight, found \in BOOLEAN :
          ~ResponsePending /\ GetProfileReturns(c, found)
    \/ \E c \in InFlight,
          o \in {"launched", "BROWSER_NOT_FOUND", "LAUNCH_FAILED"} :
          ~ResponsePending /\ LaunchReturns(c, o)
    \/ \E c \in InFlight, ok \in BOOLEAN :
          ~ResponsePending /\ GotoReturns(c, ok)
    \/ \E c \in InFlight, closeOk \in BOOLEAN :
          ~ResponsePending /\ CleanupCloseReturns(c, closeOk)
    \/ \E id \in ApiProfiles : PostStop(id)
    \/ \E c \in InFlight, closeOk \in BOOLEAN :
          ~ResponsePending /\ StopCloseReturns(c, closeOk)
    \/ \E b \in 1..MaxBrowsers : ~ResponsePending /\ Disconnected(b)
    \/ \E id \in ApiIds, u \in Urls : PostNavigate(id, u)
    \/ \E c \in InFlight, landed \in UNION {LandingUrls(u) : u \in Urls} :
          ~ResponsePending /\ NavGotoReturns(c, landed)
    \/ \E c \in InFlight : ~ResponsePending /\ NavTitleReturns(c)
    \/ \E c \in InFlight : ~ResponsePending /\ NavigateFails(c)
    \/ \E id \in ApiIds, script \in Scripts : PostExecute(id, script)
    \/ \E c \in InFlight, ok \in BOOLEAN :
          ~ResponsePending /\ EvaluateReturns(c, ok)
    \/ \E m \in LaunchMessages \cup PageMessages \cup {<< >>} :
          RouteResponds(m)

SpecApi == Init /\ [][NextApi]_vars

\* ------------------------------------------- calls that come to an end
\* the profile whose starts and stops overlap, each engine operation
\* settling in the end
LiveProfiles == {"p1"}

GetProfileSettles ==
    \E c \in InFlight, found \in BOOLEAN : GetProfileReturns(c, found)
LaunchSettles ==
    \E c \in InFlight,
       o \in {"launched", "BROWSER_NOT_FOUND", "LAUNCH_FAILED"} :
        LaunchReturns(c, o)
GotoSettles ==
    \E c \in InFlight, ok \in BOOLEAN : GotoReturns(c, ok)
CleanupCloseSettles ==
    \E c \in InFlight, closeOk \in BOOLEAN : CleanupCloseReturns(c, closeOk)
StopCloseSettles ==
    \E c \in InFlight, closeOk \in BOOLEAN : StopCloseReturns(c, closeOk)

NextLive ==
    \/ \E p \in LiveProfiles, oh \in HeadlessOptions : StartBrowser(p, oh)
    \/ GetProfileSettles
    \/ LaunchSettles
    \/ GotoSettles
    \/ CleanupCloseSettles
    \/ \E p \in LiveProfiles : StopBrowser(p)
    \/ StopCloseSettles
    \/ \E b \in 1..MaxBrowsers : Disconnected(b)

\* the promise of every engine operation is settled in the end: the
\* continuation of an await that is pending runs
SpecLive ==
    /\ Init /\ [][NextLive]_vars
    /\ WF_vars(GetProfileSettles)
    /\ WF_vars(LaunchSettles)
    /\ WF_vars(GotoSettles)
    /\ WF_vars(CleanupCloseSettles)
    /\ WF_vars(StopCloseSettles)

\* ------------------------------------------- browsers out of the registry
\* the starts and stops of one profile, with launches whose page setup
\* fails; only browsers that got their listener at line 96 report a
\* disconnect to the service
NextOrphan ==
    \/ \E p \in LiveProfiles, oh \in HeadlessOptions : StartBrowser(p, oh)
    \/ GetProfileSettles
    \/ LaunchSettles
    \/ \E c \in InFlight : SetupFails(c)
    \/ GotoSettles
    \/ CleanupCloseSettles
    \/ \E p \in LiveProfiles : StopBrowser(p)
    \/ StopCloseSettles
    \/ \E b \in 1..MaxBrowsers :
          /\ b <= Len(browsers) /\ browsers[b].startGotoCalls = 1
          /\ Disconnected(b)

SpecOrphan == Init /\ [][NextOrphan]_vars

\* ------------------------------------------- the cleanup of a client
\* starts and stops of two profiles by a client that ends with
\* stopAllBrowsers and calls the service no more once that has begun; its
\* own stops are called with no start or stop in flight
NextCleanup ==
    \/ \E p \in Profiles, oh \in HeadlessOptions :
          req # Cleanup /\ StartBrowser(p, oh)
    \/ GetProfileSettles
    \/ LaunchSettles
    \/ GotoSettles
    \/ CleanupCloseSettles
    \/ \E p \in Profiles :
          req # Cleanup /\ LifecycleIdle /\ StopBrowser(p)
    \/ StopCloseSettles
    \/ \E b \in 1..MaxBrowsers : Disconnected(b)
    \/ CleanupBegins
    \/ StopAllReturns

SpecCleanup == Init /\ [][NextCleanup]_vars

\* ------------------------------------------------- deleting a profile
\* the start, stop and delete routes of one profile
NextDelete ==
    \/ \E id \in ApiProfiles, oh \in HeadlessOptions : PostStart(id, oh)
    \/ \E c \in InFlight, found \in BOOLEAN :
          ~ResponsePending /\ GetProfileReturns(c, found)
    \/ \E c \in InFlight,
          o \in {"launched", "BROWSER_NOT_FOUND", "LAUNCH_FAILED"} :
          ~ResponsePending /\ LaunchReturns(c, o)
    \/ \E c \in InFlight, ok \in BOOLEAN :
          ~ResponsePending /\ GotoReturns(c, ok)
    \/ \E c \in InFlight, closeOk \in BOOLEAN :
          ~ResponsePending /\ CleanupCloseReturns(c, closeOk)
    \/ \E id \in ApiProfiles : PostStop(id)
    \/ \E c \in InFlight, closeOk \in BOOLEAN :
          ~ResponsePending /\ StopCloseReturns(c, closeOk)
    \/ \E b \in 1..MaxBrowsers : ~ResponsePending /\ Disconnected(b)
    \/ \E m \in LaunchMessages \cup {<< >>} : RouteResponds(m)
    \/ \E id \in ApiProfiles, deleted \in BOOLEAN :
          DeleteProfileRoute(id, deleted)

SpecDelete == Init /\ [][NextDelete]_vars

\* ------------------------------------------------- the summary of a start
NextSummary ==
    \E profile \in StoredProfiles, headless \in {"true", "false"},
       n \in 0..MaxTicks :
        StartResponds(profile, headless, n * 500)

SpecSummary == Init /\ [][NextSummary]_vars

\* ------------------------------------------- the first page of a start
\* the autoNavigateUrl values of the starts: absent, empty and a URL
AutoNavigateUrls == {Undefined, ""} \cup Urls

\* starts with and without a URL; the client starts and stops one call at a
\* time
NextAutoNavigate ==
    \/ \E p \in Profiles, u \in AutoNavigateUrls, oh \in HeadlessOptions :
          LifecycleIdle /\ StartBrowserWithUrl(p, u, oh)
    \/ \E c \in InFlight, found \in BOOLEAN : GetProfileReturns(c, found)
    \/ \E c \in InFlight,
          o \in {"launched", "BROWSER_NOT_FOUND", "LAUNCH_FAILED"} :
          LaunchReturns(c, o)
    \/ \E c \in InFlight, ok \in BOOLEAN : GotoReturns(c, ok)
    \/ \E c \in InFlight, closeOk \in BOOLEAN :
          CleanupCloseReturns(c, closeOk)
    \/ \E p \in Profiles : LifecycleIdle /\ StopBrowser(p)
    \/ \E c \in InFlight, closeOk \in BOOLEAN : StopCloseReturns(c, closeOk)
    \/ \E b \in 1..MaxBrowsers : Disconnected(b)

SpecAutoNavigate == Init /\ [][NextAutoNavigate]_vars

\* ------------------------------------------------- the status reads
\* two profiles started and stopped one call at a time while the time
\* passes, and looked at in every state
NextReads ==
    \/ \E p \in Profiles, oh \in HeadlessOptions :
          LifecycleIdle /\ StartBrowser(p, oh)
    \/ \E c \in InFlight, found \in BOOLEAN : GetProfileReturns(c, found)
    \/ \E c \in InFlight,
          o \in {"launched", "BROWSER_NOT_FOUND", "LAUNCH_FAILED"} :
          LaunchReturns(c, o)
    \/ \E c \in InFlight, ok \in BOOLEAN : GotoReturns(c, ok)
    \/ \E c \in InFlight, closeOk \in BOOLEAN :
          CleanupCloseReturns(c, closeOk)
    \/ \E p \in Profiles : LifecycleIdle /\ StopBrowser(p)
    \/ \E c \in InFlight, closeOk \in BOOLEAN : StopCloseReturns(c, closeOk)
    \/ \E b \in 1..MaxBrowsers : Disconnected(b)
    \/ Tick
    \/ \E p \in Profiles : GetBrowserStatusCall(p)
    \/ GetAllActiveSessionsCall

SpecReads == Init /\ [][NextReads]_vars

\* ------------------------------------------- the errors of a launch
\* the words an engine message is made of here, and its longest length
EngineWords ==
    {"executable", "ENOENT", "spawn", "not", "found", "timeout"}
MaxWords == 3

\* the messages of the engine errors, the empty message among them
EngineMessages ==
    UNION {[1..n -> EngineWords] : n \in 0..MaxWords}

\* startBrowser(p) of a stored profile whose launch is rejected with an
\* error of message engineMessage: lines 58-77 throw, the outer catch finds
\* no session of p (lines 132-144) and rethrows the same error to the caller
LaunchFails(p, engineMessage) ==
    /\ last' = [op |-> "startBrowser", profileId |-> p,
                result |-> LaunchCatch(engineMessage).error.code,
                browser |-> 0,
                thrown |-> LaunchCatch(engineMessage),
                launchError |-> EngineError(engineMessage)]
    /\ UNCHANGED <<activeSessions, startingProfiles, stoppingProfiles, calls,
                   browsers, stopAll, history, envVars, apiVars>>

NextClassify ==
    \E p \in {"p1"}, m \in EngineMessages : LaunchFails(p, m)

SpecClassify == Init /\ [][NextClassify]_vars

\* ------------------------------------- a plain and a proxied profile
LaunchProfiles == {"p1", "q1"}

NextLaunch ==
    \/ \E p \in LaunchProfiles, oh \in HeadlessOptions : StartBrowser(p, oh)
    \/ \E c \in InFlight, found \in BOOLEAN : GetProfileReturns(c, found)
    \/ \E c \in InFlight,
          o \in {"launched", "BROWSER_NOT_FOUND", "LAUNCH_FAILED"} :
          LaunchReturns(c, o)
    \/ \E c \in InFlight, ok \in BOOLEAN : GotoReturns(c, ok)
    \/ \E c \in InFlight, closeOk \in BOOLEAN :
          CleanupCloseReturns(c, closeOk)
    \/ \E p \in LaunchProfiles : StopBrowser(p)
    \/ \E c \in InFlight, closeOk \in BOOLEAN : StopCloseReturns(c, closeOk)
    \/ \E b \in 1..MaxBrowsers : Disconnected(b)

SpecLaunch == Init /\ [][NextLaunch]_vars

\* ------------------------------------------------------------ properties

\* C1: in every reachable state the registry holds at most one session for
\* each profile, whatever the interleaving of start, stop, stopAll and
\* disconnect events.
AtMostOneSessionPerProfile ==
    \A p \in Profiles : EntriesFor(activeSessions, p) <= 1

\* a profile is in the registry while a start and a stop of it are both in
\* flight
W_SessionUnderConcurrentStartStop ==
    \E p \in Profiles :
        /\ EntriesFor(activeSessions, p) = 1
        /\ CallsInFlight("startBrowser", p) = 1
        /\ CallsInFlight("stopBrowser", p) = 1

\* C2: for every profile at most one startBrowser call is between its guard
\* and its exit, so a launch or navigation of one start(p) never overlaps
\* the launch of another.
AtMostOneStartInFlight ==
    \A p \in Profiles : CallsInFlight("startBrowser", p) <= 1

\* starts of both profiles are in flight, one of them waiting for its
\* navigation, and a further start of that profile would be turned away
W_StartsOfTwoProfilesInFlight ==
    \E c, d \in InFlight :
        /\ c.op = "startBrowser" /\ c.pc = "goto"
        /\ d.op = "startBrowser" /\ d.profileId # c.profileId
        /\ StartBrowserThrows(c.profileId).code = "ALREADY_STARTING"

\* C3: a startBrowser(p) issued while another startBrowser(p) is in flight
\* fails at once with the already-starting error; it launches nothing, leaves
\* the registry alone and leaves p in startingProfiles.
SecondStartFailsFast ==
    /\ [](\A p \in Profiles :
            CallsInFlight("startBrowser", p) >= 1
            => /\ StartBrowserThrows(p).code = "ALREADY_STARTING"
               /\ p \in startingProfiles)
    /\ [][\A p \in Profiles, oh \in HeadlessOptions :
             (StartBrowser(p, oh) /\ CallsInFlight("startBrowser", p) >= 1)
             => UNCHANGED <<activeSessions, browsers, calls,
                            startingProfiles, stoppingProfiles>>]_vars

\* a start(p) is in flight and has not yet stored its session; a second
\* start(p) issued now is rejected as already starting
W_SecondStartBeforeSession ==
    \E p \in Profiles :
        /\ CallsInFlight("startBrowser", p) = 1
        /\ EntriesFor(activeSessions, p) = 0
        /\ StartBrowserThrows(p).code = "ALREADY_STARTING"

\* C4 as stated: once startBrowser(p) has succeeded, every startBrowser(p)
\* issued before any stopBrowser(p) fails with SESSION_ACTIVE.
StartAfterStartFails ==
    \A p \in Profiles :
        history[p] \in {"started", "disconnected"}
        => StartBrowserThrows(p).code = "SESSION_ACTIVE"

\* C4 amended: once startBrowser(p) has succeeded, every later startBrowser(p)
\* fails with SESSION_ACTIVE provided that, since that start stored its
\* session, no stopBrowser(p) was called or in flight and no disconnected
\* event of a browser launched for p fired.
StartAfterStartFailsUntilDisconnect ==
    \A p \in Profiles :
        history[p] = "started"
        => StartBrowserThrows(p) = [code |-> "SESSION_ACTIVE", profileId |-> p]

\* start(p) has just succeeded, nothing has stopped or disconnected it, and
\* a further start(p) is rejected as already active
W_RestartRejected ==
    \E p \in Profiles :
        /\ history[p] = "started"
        /\ last.op = "startBrowser" /\ last.profileId = p
        /\ last.result = "running"
        /\ StartBrowserThrows(p).code = "SESSION_ACTIVE"

\* C5: whenever p has a registry entry and no start(p) is in flight,
\* startBrowser(p) fails with code SESSION_ACTIVE carrying p, and changes
\* neither the registry nor a guard set.
StartOnActiveSessionRejected ==
    /\ [](\A p \in Profiles :
            (/\ EntriesFor(activeSessions, p) >= 1
             /\ CallsInFlight("startBrowser", p) = 0)
            => StartBrowserThrows(p) =
                  [code |-> "SESSION_ACTIVE", profileId |-> p])
    /\ [][\A p \in Profiles, oh \in HeadlessOptions :
             (/\ StartBrowser(p, oh)
              /\ EntriesFor(activeSessions, p) >= 1
              /\ CallsInFlight("startBrowser", p) = 0)
             => UNCHANGED <<activeSessions, startingProfiles,
                            stoppingProfiles>>]_vars

\* both profiles have a session, no start is in flight, and a start of
\* either is rejected as already active
W_BothActiveBothRejected ==
    /\ MapSize(activeSessions) = 2
    /\ \A p \in Profiles :
          /\ CallsInFlight("startBrowser", p) = 0
          /\ StartBrowserThrows(p).code = "SESSION_ACTIVE"

\* C6 as stated, for the stopBrowser(p) calls that find p's session and go on
\* to close it: the call returns true, p is absent from the registry when it
\* returns, and close has been invoked exactly once on that session's
\* browser.
StopRemovesAndClosesOnce ==
    last.op = "stopBrowser"
    => /\ last.result = "true"
       /\ EntriesFor(activeSessions, last.profileId) = 0
       /\ browsers[last.browser].closeCalls = 1

\* C7: close is invoked at most once on any browser, whatever the
\* interleaving of start's cleanup, stopBrowser and stopAllBrowsers.
CloseInvokedAtMostOnce ==
    \A b \in 1..Len(browsers) : browsers[b].closeCalls <= 1

\* C8: stopBrowser(x) for a profile with no registry entry and no stop in
\* flight returns false (it does not throw), invokes no close and changes
\* neither the registry nor a guard set.
StopOfNothingReturnsFalse ==
    /\ [](\A p \in Profiles :
            (/\ EntriesFor(activeSessions, p) = 0
             /\ CallsInFlight("stopBrowser", p) = 0)
            => StopBrowserReturnsEarly(p) = "false")
    /\ [][\A p \in Profiles :
             (/\ StopBrowser(p)
              /\ EntriesFor(activeSessions, p) = 0
              /\ CallsInFlight("stopBrowser", p) = 0)
             => UNCHANGED <<activeSessions, startingProfiles,
                            stoppingProfiles, browsers, calls>>]_vars

\* a stopBrowser(p) has just returned true; a second stopBrowser(p) now
\* finds nothing and returns false
W_StopAfterStop ==
    \E p \in Profiles :
        /\ last.op = "stopBrowser" /\ last.profileId = p
        /\ EntriesFor(activeSessions, p) = 0
        /\ CallsInFlight("stopBrowser", p) = 0
        /\ StopBrowserReturnsEarly(p) = "false"

\* C9: with two or more sessions in the registry, the steps of stopBrowser(p)
\* remove only p's entry: the entry and the status of every other profile
\* are unchanged, and the step that removes p's entry makes the registry
\* exactly one smaller.
StopLeavesOthersAlone ==
    [][/\ \A p \in Profiles : StopBrowser(p) => UNCHANGED activeSessions
       /\ \A c \in InFlight, closeOk \in BOOLEAN :
             (StopCloseReturns(c, closeOk) /\ MapSize(activeSessions) >= 2)
             => /\ \A q \in Profiles \ {c.profileId} :
                      /\ MapGet(activeSessions', q) = MapGet(activeSessions, q)
                      /\ GetBrowserStatus(activeSessions', q)
                            = GetBrowserStatus(activeSessions, q)
                /\ EntriesFor(activeSessions', c.profileId) = 0
                /\ EntriesFor(activeSessions, c.profileId) = 1
                   => MapSize(activeSessions')
                        = MapSize(activeSessions) - 1]_vars

\* a stopBrowser has just returned and the other profile's session is still
\* in the registry, running
W_OtherSessionSurvivesStop ==
    \E p \in Profiles :
        /\ last.op = "stopBrowser" /\ last.profileId = p
        /\ MapSize(activeSessions) = 1
        /\ \E q \in Profiles \ {p} :
              GetBrowserStatus(activeSessions, q).status = "running"

\* C10: no reachable state has a startBrowser(p) past its guard and a
\* stopBrowser(p) past its guard at the same time.
StartAndStopSerialized ==
    \A p \in Profiles :
        ~(/\ p \in startingProfiles /\ CallsInFlight("startBrowser", p) >= 1
          /\ p \in stoppingProfiles /\ CallsInFlight("stopBrowser", p) >= 1)

\* C11: for any p with no registry entry, getBrowserStatus(p) returns null
\* and navigateToUrl(p, *) and executeScript(p, *) fail with the error that
\* says there is no active browser session for p; none of the three touches
\* a browser or page, the registry or a guard set.
NoSessionOperationsFail ==
    /\ [](\A p \in Profiles :
            EntriesFor(activeSessions, p) = 0
            => /\ GetBrowserStatus(activeSessions, p) = NoStatus
               /\ \A e \in {NavigateToUrlThrows(p), ExecuteScriptThrows(p)} :
                     /\ e.name = "Error"
                     /\ Includes(e.message,
                                 <<"No", "active", "browser", "session">>)
                     /\ Includes(e.message, IdTokens(p)))
    /\ [][\A p \in Profiles, u \in Urls, script \in Scripts :
             (/\ NavigateToUrl(p, u) \/ ExecuteScript(p, script)
              /\ EntriesFor(activeSessions, p) = 0)
             => UNCHANGED <<activeSessions, startingProfiles,
                            stoppingProfiles, browsers, calls>>]_vars

\* a browser was launched for p and has been stopped; p has no entry now and
\* a navigation of p is turned away
W_NoSessionAfterStop ==
    /\ last.op = "stopBrowser"
    /\ EntriesFor(activeSessions, last.profileId) = 0
    /\ browsers[last.browser].closeCalls = 1
    /\ NavigateToUrlThrows(last.profileId) # NotThrown
    /\ GetBrowserStatus(activeSessions, last.profileId) = NoStatus

\* C12: for an active session of p and a URL u, navigateToUrl(p, u) invokes
\* page.goto on the session's page with exactly u; when the navigation
\* succeeds the call reads the URL the page reports after it and returns
\* success = true with that URL and the page's title.
NavigateReportsThePage ==
    [][/\ \A p \in Profiles, u \in Urls :
             (NavigateToUrl(p, u) /\ MapHas(activeSessions, p))
             => /\ browsers'[MapGet(activeSessions, p).browser].gotoUrl = u
                /\ \A b \in 1..Len(browsers) :
                      b # MapGet(activeSessions, p).browser
                      => browsers'[b] = browsers[b]
       /\ \A c \in InFlight, landed \in LandingUrls(DefaultUrl) \cup
                                        UNION {LandingUrls(u) : u \in Urls} :
             NavGotoReturns(c, landed)
             => \E d \in BagToSet(calls') :
                   /\ d.op = "navigateToUrl" /\ d.pc = "title"
                   /\ d.arg = c.arg
                   /\ d.currentUrl = landed
                   /\ d.currentUrl = browsers'[c.browser].url
       /\ \A c \in InFlight :
             NavTitleReturns(c)
             => last'.result =
                   [success |-> TRUE, url |-> c.currentUrl,
                    title |-> TitleOf(browsers[c.browser].url)]]_vars

\* a navigation has succeeded on a page that was redirected: the URL
\* returned is the one the page ended at, not the one asked for
W_NavigatedWithRedirect ==
    /\ last.op = "navigateToUrl"
    /\ last.result.success
    /\ last.result.url \notin Urls
    /\ last.result.url = browsers[last.browser].url
    /\ browsers[last.browser].gotoUrl \in Urls

\* C13 as stated: after startBrowser(p) succeeded and with no stopBrowser(p)
\* called since, getBrowserStatus(p) returns profileId p, status 'running'
\* and an uptime >= 0, and stopBrowser(p) goes on to close the session.
StatusRunningAfterStart ==
    \A p \in AllProfiles :
        history[p] \in {"started", "disconnected"}
        => /\ GetBrowserStatus(activeSessions, p).profileId = p
           /\ GetBrowserStatus(activeSessions, p).status = "running"
           /\ StopBrowserReturnsEarly(p) = "none"

\* C13 amended: after startBrowser(p) succeeded, and as long as no other call
\* on p was made and no disconnected event of p's browser fired since its
\* session was stored, getBrowserStatus(p) returns profileId p, status
\* 'running' and an uptime >= 0; stopBrowser(p) then closes the session and
\* returns true, and when it returns getBrowserStatus(p) is null.
StatusRunningUntilStopOrDisconnect ==
    /\ [](\A p \in AllProfiles :
            history[p] = "started"
            => /\ GetBrowserStatus(activeSessions, p).profileId = p
               /\ GetBrowserStatus(activeSessions, p).status = "running"
               /\ Uptime(MapGet(activeSessions, p), clock) >= 0
               /\ StopBrowserReturnsEarly(p) = "none")
    /\ [][\A c \in InFlight, closeOk \in BOOLEAN :
             StopCloseReturns(c, closeOk)
             => /\ last'.result = "true"
                /\ GetBrowserStatus(activeSessions', c.profileId)
                      = NoStatus]_vars

\* a session started at a later instant than 0 has been up for a second or
\* more and nothing has stopped or disconnected it
W_RunningForASecond ==
    \E p \in AllProfiles :
        /\ history[p] = "started"
        /\ GetTime(MapGet(activeSessions, p).startTime) > 0
        /\ Uptime(MapGet(activeSessions, p), clock) >= 1

\* C14: when the process exits after SIGINT, close has been invoked on the
\* browser of every session the registry of the API's BrowserService holds
\* and the registry is empty.
ShutdownStopsEverySession ==
    shutdown = "exited"
    => /\ activeSessions = << >>
       /\ \A b \in 1..Len(browsers) :
             browsers[b].closeCalls >= 1 \/ browsers[b].disconnected

\* C15 as stated, for a stopAllBrowsers that settles in the step it is called
\* in: the registry it took its keys from is empty when it settles.
StopAllRemovesEverySnapshotEntry ==
    [][(StopAllBrowsers /\ last'.op = "stopAllBrowsers")
       => activeSessions' = << >>]_vars

\* C15 amended: stopAllBrowsers never throws, whatever the close outcomes; it
\* calls stopBrowser once for each key the registry holds when it is called;
\* for every such profile that is not already being stopped, close is
\* invoked once on the registered browser by that call, stopAllBrowsers
\* settles only after the call has settled, and the call removes the
\* profile's entry when it settles.  For a profile already being stopped the
\* call returns at once and stopAllBrowsers does not wait for that stop.
StopAllClosesWhatItStops ==
    [][/\ StopAllBrowsers
          => \A p \in MapKeys(activeSessions) :
                LET b == MapGet(activeSessions, p).browser
                    c == Call("stopBrowser", p, "close", b, Undefined,
                              Undefined, "stopAll")
                    made == IF c \in BagToSet(calls') THEN calls'[c] ELSE 0
                    was == IF c \in InFlight THEN calls[c] ELSE 0
                IN  IF IsStopping(p)
                    THEN made = was /\ browsers'[b] = browsers[b]
                    ELSE /\ made = was + 1
                         /\ browsers'[b].closeCalls
                               = browsers[b].closeCalls + 1
                         /\ last'.op # "stopAllBrowsers"
       /\ \A c \in InFlight, closeOk \in BOOLEAN :
             (StopCloseReturns(c, closeOk) /\ c.caller = "stopAll")
             => /\ EntriesFor(activeSessions', c.profileId) = 0
                /\ last'.result = "true"
       /\ (StopAllBrowsers \/ StopAllReturns) /\ last'.op = "stopAllBrowsers"
          => /\ last'.result = "undefined"
             /\ \A c \in BagToSet(calls') : c.caller # "stopAll"]_vars

\* stopAllBrowsers took over two sessions, both of its stopBrowser calls have
\* settled and it is about to settle itself with the registry empty
W_StopAllStoppedTwo ==
    /\ stopAll = "awaiting"
    /\ StopAllPending = {}
    /\ last.op = "stopBrowser"
    /\ activeSessions = << >>
    /\ Cardinality({b \in 1..Len(browsers) : browsers[b].closeCalls = 1}) = 2

\* C16: at the HTTP layer a start rejected because the session is already
\* active is answered with status 409, and a start for an unknown profile and
\* a navigate or execute on a profile with no active session are answered
\* with status 404.
ApiAnswersConflictAndNotFound ==
    /\ (req.route = "start" /\ req.error.code = "SESSION_ACTIVE")
       => res.statusCode = 409
    /\ (req.route = "start" /\ req.error.code = "PROFILE_NOT_FOUND")
       => res.statusCode = 404
    /\ (/\ req.route \in {"navigate", "execute"}
        /\ req.error = NoActiveSessionError(req.id))
       => res.statusCode = 404

\* C17: at the HTTP layer a start that fails with BROWSER_NOT_FOUND or with
\* LAUNCH_FAILED is answered with a 5xx status, whatever the message of the
\* engine error.
ApiAnswersLaunchFailureWith5xx ==
    (/\ req.route = "start"
     /\ req.error.code \in {"BROWSER_NOT_FOUND", "LAUNCH_FAILED"})
    => res.statusCode \in 500..599

\* C18: when startBrowser(p) is rejected because p has an active session,
\* the message of the rejection says that the browser is already running and
\* contains the profile id p.
SessionActiveMessageNamesProfile ==
    \A p \in Profiles :
        StartBrowserThrows(p).code = "SESSION_ACTIVE"
        => /\ Includes(ToLowerCase(StartBrowserError(p).message),
                       <<"already", "running">>)
           /\ Includes(StartBrowserError(p).message, IdTokens(p))

\* C19: the summary of a successful startBrowser does not depend on the
\* username or password of the profile's proxy: a profile that differs from
\* the started one in the proxy credentials only yields the same summary,
\* and the proxy block of the summary holds host, port and type only.
SummaryHidesProxyCredentials ==
    (req.route = "start" /\ res.data # Null)
    => LET summary == res.data[1]
           profile == req.profile
       IN  /\ \A u \in ProxyUsernames, pw \in ProxyPasswords :
                 LET other ==
                       IF profile.proxy = Null THEN profile
                       ELSE [profile EXCEPT !.proxy =
                                Some([profile.proxy[1] EXCEPT
                                         !.username = u, !.password = pw])]
                 IN  StartSummary(other.id, other, summary.startTime,
                                  summary.headless) = summary
           /\ summary.browserInfo.proxy # Null
              => DOMAIN summary.browserInfo.proxy[1]
                    = {"host", "port", "type"}

\* a profile whose proxy has a username and a password was started, and the
\* summary sent shows the host of that proxy
W_SummaryOfProxyWithCredentials ==
    /\ req.route = "start" /\ res.data # Null
    /\ req.profile.proxy # Null
    /\ req.profile.proxy[1].username # Undefined
    /\ req.profile.proxy[1].password # Undefined
    /\ res.data[1].browserInfo.proxy # Null
    /\ res.data[1].browserInfo.proxy[1].host = req.profile.proxy[1].host

\* C20: operations on distinct profiles are independent: a step of a start
\* or stop of p changes neither the registry entry of another profile q nor
\* the membership of q in a guard set, and it never makes an operation on q
\* fail: the navigation of a browser launched for q cannot be doomed by
\* anything but q's own proxy.
DistinctProfilesIndependent ==
    /\ [](\A b \in 1..Len(browsers) :
            NavigationDoomed(browsers, b)
            => /\ HasProxyServer(Profile(browsers[b].profileId))
               /\ ProxyServerArg(Profile(browsers[b].profileId).proxy[1])
                     \in UnreachableProxies)
    /\ [][\A p \in LaunchProfiles :
             (\/ \E oh \in HeadlessOptions : StartBrowser(p, oh)
              \/ StopBrowser(p)
              \/ \E c \in InFlight :
                    /\ c.profileId = p
                    /\ \/ \E found \in BOOLEAN : GetProfileReturns(c, found)
                       \/ \E o \in {"launched", "BROWSER_NOT_FOUND",
                                     "LAUNCH_FAILED"} : LaunchReturns(c, o)
                       \/ \E ok \in BOOLEAN : GotoReturns(c, ok)
                       \/ \E closeOk \in BOOLEAN :
                             CleanupCloseReturns(c, closeOk)
                       \/ \E closeOk \in BOOLEAN :
                             StopCloseReturns(c, closeOk))
             => \A q \in LaunchProfiles \ {p} :
                   /\ MapGet(activeSessions', q) = MapGet(activeSessions, q)
                   /\ (q \in startingProfiles') = (q \in startingProfiles)
                   /\ (q \in stoppingProfiles') = (q \in stoppingProfiles)]_vars

\* C21: when a startBrowser(p) call that passed the guards fails at a later
\* step (profile lookup, launch, navigation), then at its exit p has no
\* registry entry and is not in startingProfiles; the cleanup rethrows the
\* original failure whether its close resolved or rejected.
FailedStartLeavesNothing ==
    [][\A c \in InFlight :
          (/\ \/ \E found \in BOOLEAN : GetProfileReturns(c, found)
              \/ \E o \in {"launched", "BROWSER_NOT_FOUND", "LAUNCH_FAILED"} :
                    LaunchReturns(c, o)
              \/ \E ok \in BOOLEAN : GotoReturns(c, ok)
              \/ \E closeOk \in BOOLEAN : CleanupCloseReturns(c, closeOk)
           /\ last'.op = "startBrowser"
           /\ last'.result # "running")
          => /\ EntriesFor(activeSessions', c.profileId) = 0
             /\ c.profileId \notin startingProfiles'
             /\ last'.result \in {"PROFILE_NOT_FOUND", "BROWSER_NOT_FOUND",
                                  "LAUNCH_FAILED", "NAVIGATION_FAILED"}
             /\ c.pc = "cleanupClose" => last'.result = c.error]_vars

\* a start has failed at its navigation: the browser it launched was closed
\* by the cleanup, and the profile has neither an entry nor the guard
W_StartFailedAfterLaunch ==
    /\ last.op = "startBrowser"
    /\ last.result = "NAVIGATION_FAILED"
    /\ last.browser # NoBrowser
    /\ browsers[last.browser].closeCalls = 1
    /\ EntriesFor(activeSessions, last.profileId) = 0
    /\ last.profileId \notin startingProfiles

\* C22: in every reachable state p is in startingProfiles exactly when one
\* startBrowser(p) call is between its guard acquisition and its exit, and in
\* stoppingProfiles exactly when one stopBrowser(p) call is between its guard
\* acquisition and its exit; neither count exceeds one, and with no call in
\* flight both guard sets are empty.
GuardSetsMirrorCallsInFlight ==
    /\ \A p \in Profiles :
          /\ CallsInFlight("startBrowser", p) <= 1
          /\ CallsInFlight("stopBrowser", p) <= 1
          /\ p \in startingProfiles <=> CallsInFlight("startBrowser", p) = 1
          /\ p \in stoppingProfiles <=> CallsInFlight("stopBrowser", p) = 1
    /\ startingProfiles \subseteq Profiles
    /\ stoppingProfiles \subseteq Profiles
    /\ calls = EmptyBag => startingProfiles = {} /\ stoppingProfiles = {}

\* one profile is being started while the other is being stopped, and each
\* has had a browser launched
W_OneStartingOtherStopping ==
    \E p, q \in Profiles :
        /\ p # q
        /\ startingProfiles = {p}
        /\ stoppingProfiles = {q}
        /\ Len(browsers) >= 2

\* C23: a stopBrowser(p) call issued while another stopBrowser(p) is in
\* flight returns true at once, invokes no close and changes neither the
\* registry nor stoppingProfiles.
SecondStopReturnsTrue ==
    /\ [](\A p \in Profiles :
            CallsInFlight("stopBrowser", p) >= 1
            => StopBrowserReturnsEarly(p) = "true")
    /\ [][\A p \in Profiles :
             (StopBrowser(p) /\ CallsInFlight("stopBrowser", p) >= 1)
             => UNCHANGED <<activeSessions, stoppingProfiles, browsers,
                            calls, startingProfiles>>]_vars

\* a stop of p waits for close while p's entry is still in the registry; a
\* second stop of p returns true and the browser has been closed once
W_SecondStopDuringClose ==
    \E c \in InFlight :
        /\ c.op = "stopBrowser" /\ c.pc = "close"
        /\ MapGet(activeSessions, c.profileId).browser = c.browser
        /\ browsers[c.browser].closeCalls = 1
        /\ StopBrowserReturnsEarly(c.profileId) = "true"

\* C24: if close rejects during stopBrowser(p), stopBrowser still returns
\* true, p's entry is removed from the registry and p is removed from
\* stoppingProfiles.
StopSurvivesCloseFailure ==
    [][\A c \in InFlight :
          StopCloseReturns(c, FALSE)
          => /\ last'.op = "stopBrowser"
             /\ last'.result = "true"
             /\ EntriesFor(activeSessions', c.profileId) = 0
             /\ c.profileId \notin stoppingProfiles'
             /\ c \notin BagToSet(calls')]_vars

\* a stop has returned true for a browser that disconnected while the stop
\* waited for its close (a close that the engine rejects); the entry and the
\* guard are gone
W_StopReturnedForDeadBrowser ==
    /\ last.op = "stopBrowser"
    /\ last.result = "true"
    /\ browsers[last.browser].disconnected
    /\ browsers[last.browser].closeCalls = 1
    /\ EntriesFor(activeSessions, last.profileId) = 0
    /\ last.profileId \notin stoppingProfiles

\* C25: the disconnected handler of a browser launched for p removes p's
\* registry entry when there is one and changes nothing in the registry when
\* there is none (as after or during a stop of p); it touches neither guard
\* set, no call in flight and no entry of another profile.
DisconnectRemovesOnlyItsProfile ==
    [][\A b \in 1..Len(browsers) :
          Disconnected(b)
          => LET p == browsers[b].profileId
             IN  /\ EntriesFor(activeSessions', p) = 0
                 /\ EntriesFor(activeSessions, p) = 0
                    => activeSessions' = activeSessions
                 /\ \A q \in Profiles \ {p} :
                       MapGet(activeSessions', q) = MapGet(activeSessions, q)
                 /\ MapSize(activeSessions')
                       = MapSize(activeSessions) - EntriesFor(activeSessions, p)
                 /\ UNCHANGED <<startingProfiles, stoppingProfiles, calls>>]_vars

\* the browser of a stopped profile has disconnected after the stop removed
\* the entry, while the other profile's session stays in the registry
W_DisconnectAfterStop ==
    \E b \in 1..Len(browsers) :
        /\ browsers[b].disconnected
        /\ browsers[b].closeCalls = 1
        /\ last = NoEvent
        /\ calls = EmptyBag
        /\ EntriesFor(activeSessions, browsers[b].profileId) = 0
        /\ MapSize(activeSessions) = 1

\* C26: a registry entry for p is created only by the step in which the
\* launch for p succeeded; a startBrowser(p) call whose profile lookup finds
\* nothing or whose launch fails inserts, replaces and removes no entry, on
\* the failing step and in its cleanup.
EntryOnlyAfterLaunch ==
    /\ [](/\ \A c \in InFlight :
               (c.op = "startBrowser" /\ c.pc = "cleanupClose")
               => c.error \notin {"PROFILE_NOT_FOUND", "BROWSER_NOT_FOUND",
                                  "LAUNCH_FAILED"}
          /\ \A i \in 1..Len(activeSessions) :
               /\ activeSessions[i].value.browser \in 1..Len(browsers)
               /\ browsers[activeSessions[i].value.browser].profileId
                     = activeSessions[i].key)
    /\ [][/\ \A p \in Profiles, oh \in HeadlessOptions :
                StartBrowser(p, oh) => UNCHANGED activeSessions
          /\ \A c \in InFlight :
                /\ (\E found \in BOOLEAN : GetProfileReturns(c, found))
                   => UNCHANGED <<activeSessions, browsers>>
                /\ (\E o \in {"BROWSER_NOT_FOUND", "LAUNCH_FAILED"} :
                       LaunchReturns(c, o))
                   => UNCHANGED <<activeSessions, browsers>>
          /\ \A p \in Profiles :
                (/\ MapGet(activeSessions', p) # MapGet(activeSessions, p)
                 /\ MapHas(activeSessions', p))
                => /\ \E c \in InFlight :
                         /\ c.profileId = p
                         /\ LaunchReturns(c, "launched")
                   /\ Len(browsers') = Len(browsers) + 1
                   /\ MapGet(activeSessions', p).browser = Len(browsers')]_vars

\* a start has failed at its launch, without a browser, and the session of
\* the other profile is in the registry
W_LaunchFailedBesideSession ==
    \E p \in Profiles :
        /\ last.op = "startBrowser" /\ last.profileId = p
        /\ last.result \in {"BROWSER_NOT_FOUND", "LAUNCH_FAILED"}
        /\ last.browser = NoBrowser
        /\ MapKeys(activeSessions) = Profiles \ {p}

\* ------------------------------------------------------------------ C27
\* C27: the headless flag of a started session is options.headless when that
\* is provided, else the profile's defaultHeadless when that is provided,
\* else false; the launch is given this value, the session stores it, and
\* the start summary and getBrowserStatus report it.
HeadlessResolvedOnceAndReported ==
    /\ [](\A i \in 1..Len(activeSessions) :
            LET p == activeSessions[i].key
                session == activeSessions[i].value
            IN  /\ session.headless \in {"true", "false"}
                /\ browsers[session.browser].headless = session.headless
                /\ GetBrowserStatus(activeSessions, p).headless
                     = session.headless)
    /\ [][\A c \in InFlight :
            LET p == c.profileId
                dflt == Profile(p).defaultHeadless
                want == IF c.headless # Undefined THEN c.headless
                        ELSE IF dflt # Undefined THEN dflt ELSE "false"
            IN  /\ GetProfileReturns(c, TRUE)
                     => \E d \in BagToSet(calls') :
                          /\ d.profileId = p /\ d.pc = "launch"
                          /\ d.headless = want
                /\ LaunchReturns(c, "launched")
                     => /\ browsers'[Len(browsers')].headless = c.headless
                        /\ MapGet(activeSessions', p).headless = c.headless
                /\ GotoReturns(c, TRUE)
                     => LET summary == StartSummary(p, Profile(p),
                                           MapGet(activeSessions, p).startTime,
                                           c.headless)
                        IN  /\ summary.headless
                                 = browsers[c.browser].headless
                            /\ MapHas(activeSessions', p)
                                 => GetBrowserStatus(activeSessions', p)
                                      .headless = summary.headless]_vars

\* a start that asked for a headed browser of the profile whose default is
\* headless has returned its summary, and the session is stored as headed
W_OptionOverridesProfileDefault ==
    /\ last.op = "startBrowser" /\ last.profileId = "p2"
    /\ last.result = "running"
    /\ Profile("p2").defaultHeadless = "true"
    /\ MapHas(activeSessions, "p2")
    /\ MapGet(activeSessions, "p2").headless = "false"
    /\ browsers[MapGet(activeSessions, "p2").browser].headless = "false"

\* ------------------------------------------------------------------ C28
\* C28: a launch failure is raised as BROWSER_NOT_FOUND exactly when the
\* message of the engine error contains 'executable', 'ENOENT', 'spawn' or
\* 'not found', and as LAUNCH_FAILED otherwise; either way the raised error
\* carries the engine error as its originalError.
LaunchFailureClassifiedByMessage ==
    last.op = "startBrowser" =>
        LET m == last.launchError.message
            matches == \/ Includes(m, <<"executable">>)
                       \/ Includes(m, <<"ENOENT">>)
                       \/ Includes(m, <<"spawn">>)
                       \/ Includes(m, <<"not", "found">>)
        IN  /\ last.thrown.error.code
                 = (IF matches THEN "BROWSER_NOT_FOUND" ELSE "LAUNCH_FAILED")
            /\ last.result = last.thrown.error.code
            /\ last.thrown.originalError = last.launchError

\* a launch has failed with a message whose only pattern is 'spawn' and was
\* raised as BROWSER_NOT_FOUND, with the engine error attached
W_SpawnFailureIsBrowserNotFound ==
    /\ last.op = "startBrowser"
    /\ last.launchError.message = <<"spawn", "timeout">>
    /\ last.thrown.error.code = "BROWSER_NOT_FOUND"
    /\ last.thrown.originalError.message = <<"spawn", "timeout">>

\* ------------------------------------------------------------------ C29
\* C29: startBrowser navigates the page exactly once, to autoNavigateUrl
\* when one is given and to https://httpbin.org/headers otherwise, and asks
\* for this navigation only once the session is in the registry and the
\* disconnect handler is registered.
StartNavigatesOnceAfterRegistration ==
    /\ [](\A c \in InFlight :
            (c.op = "startBrowser" /\ c.pc \in {"goto", "cleanupClose"}
               /\ c.browser # NoBrowser)
              => /\ browsers[c.browser].startGotoCalls = 1
                 /\ browsers[c.browser].gotoUrl
                      = (IF c.autoNavigateUrl \in Urls
                         THEN c.autoNavigateUrl
                         ELSE "https://httpbin.org/headers"))
    /\ [](\A b \in 1..Len(browsers) : browsers[b].startGotoCalls = 1)
    /\ [](\A c \in InFlight :
            (c.op = "startBrowser" /\ c.pc \in {"getProfile", "launch"})
              => c.browser = NoBrowser)
    /\ [][\A c \in InFlight :
            LET p == c.profileId
            IN  /\ LaunchReturns(c, "launched")
                     => /\ MapHas(activeSessions', p)
                        /\ MapGet(activeSessions', p).browser = Len(browsers')
                        /\ ~browsers'[Len(browsers')].disconnected
                /\ (c.op = "startBrowser" /\ c.pc = "goto"
                      /\ Disconnected(c.browser))
                     => ~MapHas(activeSessions', p)
                /\ \A b \in 1..Len(browsers) :
                      /\ browsers'[b].gotoUrl = browsers[b].gotoUrl
                      /\ browsers'[b].startGotoCalls
                           = browsers[b].startGotoCalls]_vars

\* a start given a URL has returned its summary with the page asked to go
\* to that URL once, and a start given none is waiting for its navigation to
\* the default URL
W_StartedAtGivenUrlThenDefault ==
    /\ Len(browsers) = 2
    /\ browsers[1].gotoUrl \in Urls
    /\ browsers[1].startGotoCalls = 1
    /\ MapHas(activeSessions, browsers[1].profileId)
    /\ \A c \in InFlight : c.browser # 1
    /\ \E c \in InFlight :
          /\ c.op = "startBrowser" /\ c.pc = "goto" /\ c.browser = 2
          /\ c.autoNavigateUrl = ""
          /\ browsers[2].gotoUrl = DefaultUrl

\* ------------------------------------------------------------------ C30
\* C30: getBrowserStatus and getAllActiveSessions read and change nothing,
\* and in every reachable state they agree: the list has an entry for p
\* exactly when getBrowserStatus(p) is not null, with the same profileName,
\* status, startTime and headless, and it is as long as the registry.
StatusReadsArePureAndAgree ==
    /\ [](LET all == GetAllActiveSessions(activeSessions)
          IN  /\ Len(all) = MapSize(activeSessions)
              /\ \A p \in Profiles :
                   LET one == GetBrowserStatus(activeSessions, p)
                       mine == {i \in 1..Len(all) : all[i].profileId = p}
                   IN  /\ (mine # {}) <=> (one.profileId # NoStatus.profileId)
                       /\ \A i \in mine :
                            /\ all[i].profileName = one.profileName
                            /\ all[i].status = one.status
                            /\ all[i].startTime = one.startTime
                            /\ all[i].headless = one.headless)
    /\ [][/\ (/\ last'.op = "getBrowserStatus"
              /\ GetBrowserStatusCall(last'.profileId))
               => /\ UNCHANGED <<activeSessions, startingProfiles,
                                 stoppingProfiles, calls, browsers, stopAll,
                                 history, puppeteerArgs, clock, shutdown>>
                  /\ last'.result
                       = GetBrowserStatus(activeSessions, last'.profileId)
          /\ (last'.op = "getAllActiveSessions" /\ GetAllActiveSessionsCall)
               => /\ UNCHANGED <<activeSessions, startingProfiles,
                                 stoppingProfiles, calls, browsers, stopAll,
                                 history, puppeteerArgs, clock, shutdown>>
                  /\ Len(last'.result) = MapSize(activeSessions')]_vars

\* getAllActiveSessions has returned two sessions that started at different
\* times, while a stop of one of them is in flight
W_TwoSessionsListed ==
    /\ last.op = "getAllActiveSessions"
    /\ Len(last.result) = 2
    /\ last.result[1].startTime # last.result[2].startTime
    /\ last.result[1].headless # last.result[2].headless
    /\ last.result = GetAllActiveSessions(activeSessions)
    /\ \E c \in InFlight : c.op = "stopBrowser"

\* ------------------------------------------------------------------ C31
\* C31: a failure or timeout of navigateToUrl or executeScript on an active
\* session reaches the caller and changes neither the registry nor the two
\* guard sets: the session stays active and a stopBrowser(p) called after
\* it still returns true.
PageFailureLeavesSession ==
    [][/\ \A c \in InFlight :
             (NavigateFails(c) \/ EvaluateReturns(c, FALSE))
               => /\ activeSessions' = activeSessions
                  /\ startingProfiles' = startingProfiles
                  /\ stoppingProfiles' = stoppingProfiles
                  /\ browsers' = browsers
                  /\ last'.op = c.op /\ last'.profileId = c.profileId
                  /\ c.op = "navigateToUrl" => last'.result = Rejected
                  /\ c.op = "executeScript"
                       => last'.result = <<"engine error">>
                  /\ MapHas(activeSessions, c.profileId)
                       => /\ MapHas(activeSessions', c.profileId)
                          /\ StopBrowserReturnsEarly(c.profileId)' # "false"
       /\ \A c \in InFlight, closeOk \in BOOLEAN :
             StopCloseReturns(c, closeOk)
               => last'.op = "stopBrowser" /\ last'.result = "true"]_vars

\* a navigation of a running session has been rejected and the session is
\* still in the registry with the same browser, no stop in flight
W_NavigationFailedSessionKept ==
    /\ last.op = "navigateToUrl"
    /\ last.result = Rejected
    /\ MapHas(activeSessions, last.profileId)
    /\ MapGet(activeSessions, last.profileId).browser = last.browser
    /\ ~browsers[last.browser].disconnected
    /\ stoppingProfiles = {} /\ startingProfiles = {}

\* ------------------------------------------------------------------ C32
\* C32: a start request turned away because another start of the same
\* profile is in flight is answered like one turned away because the
\* session is active: with status 409, not with a 5xx.
AlreadyStartingAnsweredWith409 ==
    (/\ req.route = "start"
     /\ req.error.message = AlreadyStartingError(req.id).message)
       => /\ res.statusCode = 409
          /\ res.errorCode = ErrorHandler(SessionActiveError(req.id)).errorCode

\* ------------------------------------------------------------------ C33
\* C33: DELETE /api/profiles/:id stops the browser of the profile if one is
\* running: when the route has answered, the registry of the start, stop
\* and status routes holds no session for that profile.
DeleteStopsTheBrowser ==
    [][\A id \in ApiProfiles, deleted \in BOOLEAN :
          DeleteProfileRoute(id, deleted)
            => /\ ~MapHas(activeSessions', id)
               /\ \A b \in 1..Len(browsers') :
                     (browsers'[b].profileId = id
                        /\ ~browsers'[b].disconnected)
                       => browsers'[b].closeCalls > 0]_vars

\* ------------------------------------------------------------------ C34
\* C34: when every engine operation settles in the end, every startBrowser
\* and stopBrowser call comes to an end and releases its guard; a
\* stopBrowser(p) on an active session leads to p being absent from the
\* registry and from stoppingProfiles, and p stays absent as long as no
\* start of p puts a session in.
CallsEndAndReleaseGuards ==
    /\ \A p \in LiveProfiles :
          /\ (p \in startingProfiles) ~> (p \notin startingProfiles)
          /\ (CallsInFlight("startBrowser", p) > 0)
                ~> (CallsInFlight("startBrowser", p) = 0)
          /\ (CallsInFlight("stopBrowser", p) > 0)
                ~> (CallsInFlight("stopBrowser", p) = 0)
          /\ (p \in stoppingProfiles)
                ~> (p \notin stoppingProfiles
                      /\ ~MapHas(activeSessions, p))
    /\ [][\A p \in LiveProfiles :
            (~MapHas(activeSessions, p) /\ MapHas(activeSessions', p))
              => \E c \in InFlight :
                    /\ c.op = "startBrowser" /\ c.profileId = p
                    /\ c.pc = "launch"
                    /\ p \in startingProfiles]_vars

\* a stop of a session has returned true while a start of the profile is
\* still waiting for its navigation, and the profile is in neither the
\* registry nor stoppingProfiles
W_StopEndedDuringStart ==
    /\ last.op = "stopBrowser" /\ last.profileId = "p1"
    /\ last.result = "true"
    /\ ~MapHas(activeSessions, "p1")
    /\ "p1" \notin stoppingProfiles
    /\ "p1" \in startingProfiles
    /\ \E c \in InFlight : c.op = "startBrowser" /\ c.pc = "goto"

\* ------------------------------------------------------------------ C35
\* C35: when startBrowser(p) returns its summary, p has an entry in the
\* registry that holds the browser this call launched, whatever stops and
\* disconnect events ran during its navigation.
StartReturnsWithItsSessionRegistered ==
    (last.op = "startBrowser" /\ last.result = "running")
      => /\ MapHas(activeSessions, last.profileId)
         /\ MapGet(activeSessions, last.profileId).browser = last.browser

\* ------------------------------------------------------------------ C36
\* C36: no orphaned browser: whenever no start and no stop of p is in
\* flight, every browser that was launched for p and is still open (close
\* never asked, no disconnect) is the browser of p's registry entry, so
\* that stopBrowser(p) and stopAllBrowsers can reach it.
NoOrphanedBrowser ==
    \A p \in LiveProfiles :
        (CallsInFlight("startBrowser", p) = 0
           /\ CallsInFlight("stopBrowser", p) = 0)
          => \A b \in 1..Len(browsers) :
                (/\ browsers[b].profileId = p
                 /\ browsers[b].closeCalls = 0
                 /\ ~browsers[b].disconnected)
                  => /\ MapHas(activeSessions, p)
                     /\ MapGet(activeSessions, p).browser = b

\* ------------------------------------------------------------------ C37
\* C37: a removal from the registry removes only the session it was meant
\* for: neither the disconnect of a browser of an earlier session of p nor
\* the final delete of a stopBrowser(p) that began on an earlier session
\* removes the entry of a newer session of p.
RemovalHitsOnlyItsSession ==
    [][/\ \A b \in 1..Len(browsers) :
            (/\ Disconnected(b)
             /\ MapHas(activeSessions, browsers[b].profileId)
             /\ MapGet(activeSessions, browsers[b].profileId).browser # b)
              => MapHas(activeSessions', browsers[b].profileId)
       /\ \A c \in InFlight, closeOk \in BOOLEAN :
            (/\ StopCloseReturns(c, closeOk)
             /\ MapHas(activeSessions, c.profileId)
             /\ MapGet(activeSessions, c.profileId).browser # c.browser)
              => MapHas(activeSessions', c.profileId)]_vars

\* ------------------------------------------------------------------ C38
\* C38: when no startBrowser is called after stopAllBrowsers has begun, the
\* registry is empty once stopAllBrowsers and every call that was in
\* flight have finished; a start that had not stored its session when the
\* snapshot was taken leaves no session behind.
RegistryEmptyAfterStopAll ==
    (req = Cleanup /\ stopAll = "idle" /\ InFlight = {})
      => activeSessions = << >>

\* ------------------------------------------------------------------ C39
\* C39: the launch configuration of a profile depends on that profile and
\* the launch options only: createBrowserWithProfile leaves the args of the
\* shared PUPPETEER_CONFIG as they were, a profile without a proxy is
\* launched with no --proxy-server argument and a profile with a proxy with
\* its own and no other.
SharedLaunchConfigUntouched ==
    /\ puppeteerArgs = << >>
    /\ \A c \in InFlight :
          (c.op = "startBrowser" /\ c.pc = "launch")
            => c.launchProxy
                 = (IF HasProxyServer(Profile(c.profileId))
                    THEN Some(ProxyServerArg(Profile(c.profileId).proxy[1]))
                    ELSE Null)
    /\ \A b \in 1..Len(browsers) :
          browsers[b].proxyServer
            = (IF HasProxyServer(Profile(browsers[b].profileId))
               THEN Some(ProxyServerArg(
                           Profile(browsers[b].profileId).proxy[1]))
               ELSE Null)

====
